---- MODULE Spec2Model ----
(***************************************************************************)
(* Model of pbrt's scattering functions (bxdfs.h): the base BxDF variants  *)
(* and the layered random-walk engine LayeredBxDF<TopBxDF, BottomBxDF>.    *)
(*                                                                         *)
(* Float values are exact rationals <<n, d>> in lowest terms with d > 0;   *)
(* d = 0 encodes the IEEE specials a division by zero produces:            *)
(* <<1, 0>> = +inf, <<-1, 0>> = -inf, <<0, 0>> = NaN.                      *)
(***************************************************************************)
EXTENDS Integers, Sequences, FiniteSets, TLC

VARIABLES
    config,     \* LayeredBxDFConfig of the instance: maxDepth, nSamples, twoSided
    top,        \* the top interface of the layered instance
    bottom,     \* the bottom interface of the layered instance
    thickness,  \* slab thickness
    albedo,     \* medium albedo (a spectrum)
    g,          \* anisotropy of the medium's phase function
    seed,       \* GetOptions().seed, process wide
    argOrder,   \* the build's evaluation order of the arguments r(), r() of a call
    rngMode,    \* "any": every draw sequence; "hashed": draws of the per-call RNG
    call,       \* per call: arguments, locals of the running method, result
    bx          \* a base-variant evaluation: instance, arguments, results

vars == <<config, top, bottom, thickness, albedo, g, seed, argOrder, rngMode, call, bx>>

-----------------------------------------------------------------------------
(* Float arithmetic *)

Abs(n) == IF n < 0 THEN -n ELSE n

Sgn(n) == IF n < 0 THEN -1 ELSE IF n > 0 THEN 1 ELSE 0

RECURSIVE GCD(_, _)
GCD(a, b) == IF b = 0 THEN a ELSE GCD(b, a % b)

NaN == <<0, 0>>

Inf(s) == <<s, 0>>

\* the Float n/d; n/0 is an IEEE special
Rat(n, d) ==
    IF d = 0 THEN <<Sgn(n), 0>>
    ELSE LET k == GCD(Abs(n), Abs(d))
             s == IF d < 0 THEN -1 ELSE 1
         IN  <<(s * n) \div k, (s * d) \div k>>

Zero == <<0, 1>>

One == <<1, 1>>

IsNaN(a) == a = NaN

IsInf(a) == a[2] = 0 /\ a[1] # 0

IsFinite(a) == a[2] # 0

RSign(a) == Sgn(a[1])

RNeg(a) == <<-a[1], a[2]>>

RAbs(a) == <<Abs(a[1]), a[2]>>

RMul(a, b) ==
    IF IsNaN(a) \/ IsNaN(b) THEN NaN
    ELSE IF IsInf(a) \/ IsInf(b) THEN <<RSign(a) * RSign(b), 0>>
    ELSE IF a[1] = 0 \/ b[1] = 0 THEN Zero
    ELSE LET g1 == GCD(Abs(a[1]), b[2])
             g2 == GCD(Abs(b[1]), a[2])
         IN  <<(a[1] \div g1) * (b[1] \div g2), (a[2] \div g2) * (b[2] \div g1)>>

RAdd(a, b) ==
    IF IsNaN(a) \/ IsNaN(b) THEN NaN
    ELSE IF IsInf(a) /\ IsInf(b) THEN (IF a = b THEN a ELSE NaN)
    ELSE IF IsInf(a) THEN a
    ELSE IF IsInf(b) THEN b
    ELSE LET k == GCD(a[2], b[2])
         IN  Rat(a[1] * (b[2] \div k) + b[1] * (a[2] \div k), (a[2] \div k) * b[2])

RSub(a, b) == RAdd(a, RNeg(b))

RDiv(a, b) ==
    IF IsNaN(a) \/ IsNaN(b) THEN NaN
    ELSE IF IsInf(b) THEN (IF IsInf(a) THEN NaN ELSE Zero)
    ELSE IF b = Zero THEN <<RSign(a), 0>>
    ELSE IF IsInf(a) THEN <<RSign(a) * RSign(b), 0>>
    ELSE RMul(a, <<Sgn(b[1]) * b[2], Abs(b[1])>>)

\* comparisons are false on NaN, as in IEEE
RLt(a, b) == ~IsNaN(a) /\ ~IsNaN(b) /\ a # b /\
             (IF a[2] = 0 /\ b[2] = 0 THEN a[1] < b[1] ELSE a[1] * b[2] < b[1] * a[2])

RLe(a, b) == ~IsNaN(a) /\ ~IsNaN(b) /\ (a = b \/ RLt(a, b))

REq(a, b) == ~IsNaN(a) /\ ~IsNaN(b) /\ a = b

RMax(a, b) == IF RLt(a, b) THEN b ELSE a

RMin(a, b) == IF RLt(b, a) THEN b ELSE a

Sqr(a) == RMul(a, a)

\* Clamp(val, low, high)
Clamp(v, lo, hi) == IF RLt(v, lo) THEN lo ELSE IF RLt(hi, v) THEN hi ELSE v

\* Lerp(t, a, b) = (1 - t) * a + t * b
Lerp(t, a, b) == RAdd(RMul(RSub(One, t), a), RMul(t, b))

-----------------------------------------------------------------------------
(* SampledSpectrum: NSpectrumSamples Float components *)

NSpectrumSamples == 2

Comp == 1 .. NSpectrumSamples

Spectrum(x) == [i \in Comp |-> x]

\* a spectrum with value x in the first component only
Tinted(x) == [i \in Comp |-> IF i = 1 THEN x ELSE Zero]

\* operator bool of SampledSpectrum: some component is non-zero
SNonZero(a) == \E i \in Comp : a[i] # Zero

SMul(a, b) == [i \in Comp |-> RMul(a[i], b[i])]

SAdd(a, b) == [i \in Comp |-> RAdd(a[i], b[i])]

SScale(a, x) == [i \in Comp |-> RMul(a[i], x)]

SDiv(a, x) == [i \in Comp |-> RDiv(a[i], x)]

SSub(a, b) == [i \in Comp |-> RSub(a[i], b[i])]

RECURSIVE SMaxUpTo(_, _)
SMaxUpTo(a, n) == IF n = 1 THEN a[1] ELSE RMax(SMaxUpTo(a, n - 1), a[n])

MaxComponentValue(a) == SMaxUpTo(a, NSpectrumSamples)

-----------------------------------------------------------------------------
(* BxDFFlags and BxDFReflTransFlags, as sets of bits *)

Unset == {}

DiffuseReflection == {"Diffuse", "Reflection"}

DiffuseTransmission == {"Diffuse", "Transmission"}

GlossyReflection == {"Glossy", "Reflection"}

GlossyTransmission == {"Glossy", "Transmission"}

SpecularReflection == {"Specular", "Reflection"}

SpecularTransmission == {"Specular", "Transmission"}

ReflTransAll == {"Reflection", "Transmission"}

ReflTransFlags == SUBSET ReflTransAll

IsReflective(fl) == "Reflection" \in fl

IsTransmissive(fl) == "Transmission" \in fl

IsDiffuse(fl) == "Diffuse" \in fl

IsGlossy(fl) == "Glossy" \in fl

IsSpecular(fl) == "Specular" \in fl

\* directions are kept by their z component (cos theta) where only it is read
SameHemisphereZ(az, bz) == RSign(az) * RSign(bz) > 0

-----------------------------------------------------------------------------
(* Bounds of the model *)

\* largest LayeredBxDFConfig.maxDepth of an instance
MaxDepthCfg == 5

\* largest LayeredBxDFConfig.nSamples of an instance
MaxNSamples == 2

\* number of states of the modelled generator
RngMod == 16

\* largest process-wide seed
MaxSeed == 1

-----------------------------------------------------------------------------
(* Values the samplers' inputs and results are drawn from *)

Half == Rat(1, 2)

Quarter == Rat(1, 4)

\* OneMinusEpsilon: the largest Float below 1, the cap of r()
OneMinusEpsilon == Rat(15, 16)

\* the values r() = min(rng.Uniform(), OneMinusEpsilon) is drawn from
RDrawSeq == <<Zero, Half, OneMinusEpsilon>>

RDraws == {RDrawSeq[i] : i \in DOMAIN RDrawSeq}

\* z components (cos theta) of the directions a caller or a sampler produces
ZMags == {Half}

ZVals == {Zero} \cup ZMags \cup {RNeg(m) : m \in ZMags}

\* densities an interface may report
SamplePdfVals == {Zero, Half, Rat(2, 1)}

\* <<f, pdf, |wi.z|>> of the samples an interface may return: sound ones of a low and
\* of a high density, and ones with a zero value, a zero density, a grazing direction
SampleShapes ==
    {<<Spectrum(One), Half, Half>>, <<Spectrum(One), Rat(2, 1), Half>>,
     <<Spectrum(Zero), Half, Half>>, <<Spectrum(One), Zero, Half>>,
     <<Spectrum(One), Half, Zero>>}

TransportModes == {"Radiance", "Importance"}

\* !mode
NotMode(m) == IF m = "Radiance" THEN "Importance" ELSE "Radiance"

-----------------------------------------------------------------------------
(* BSDFSample and the interfaces of a layered instance *)

\* pstd::optional<BSDFSample>: {} is the absent result
NoSample == [present |-> FALSE, f |-> Spectrum(Zero), wi |-> Zero, pdf |-> Zero,
             flags |-> Unset]

BSDFSample(f, wi, pdf, flags) ==
    [present |-> TRUE, f |-> f, wi |-> wi, pdf |-> pdf, flags |-> flags]

\* an interface is known to the engine by its Flags()
TopIfaces == {{"Reflection", "Transmission", "Specular"},
              {"Reflection", "Transmission", "Glossy"}}

BottomIfaces == {DiffuseReflection, SpecularReflection,
                 {"Diffuse", "Reflection", "Transmission"}}

\* z of a sampled direction: a reflection stays on wo's side, a transmission crosses
SampledZ(woz, bit, mag) ==
    IF bit = "Reflection"
    THEN (IF RSign(woz) < 0 THEN RNeg(mag) ELSE mag)
    ELSE (IF RSign(woz) > 0 THEN RNeg(mag) ELSE mag)

\* every result interface.Sample_f(wo, uc, u, mode, sampleFlags) may have: absent, or
\* a sample of a lobe the interface has and sampleFlags admits, degenerate ones included
IfaceSamples(ifl, woz, sampleFlags) ==
    {NoSample} \cup
    {BSDFSample(sh[1], SampledZ(woz, bit, sh[3]), sh[2], (ifl \ ReflTransAll) \cup {bit}) :
        sh \in SampleShapes, bit \in (ifl \cap ReflTransAll) \cap sampleFlags}

\* every value interface.PDF(wo, wi, mode, sampleFlags) may have
IfacePdfVals(ifl, sampleFlags) ==
    IF (ifl \cap ReflTransAll) \cap sampleFlags = {} \/ IsSpecular(ifl)
    THEN {Zero} ELSE SamplePdfVals

\* pstd::optional<PhaseFunctionSample> of HGPhaseFunction::Sample_p: p = pdf
NoPhaseSample == [present |-> FALSE, p |-> Zero, wi |-> Zero, pdf |-> Zero]

PhaseSamples ==
    {NoPhaseSample} \cup
    {[present |-> TRUE, p |-> pdf, wi |-> z, pdf |-> pdf] :
        pdf \in {Zero, Half}, z \in ZVals}

-----------------------------------------------------------------------------
(* RNG and Hash *)

RngStep(r) == [state |-> (r.state * 5 + r.inc) % RngMod, inc |-> r.inc]

\* RNG(seqIndex, offset): SetSequence
RngNew(seq, offset) ==
    LET a == RngStep([state |-> 0, inc |-> (2 * seq + 1) % RngMod])
    IN  RngStep([a EXCEPT !.state = (a.state + offset) % RngMod])

RECURSIVE RngSkip(_, _)
RngSkip(r, n) == IF n = 0 THEN r ELSE RngSkip(RngStep(r), n - 1)

\* r() on generator state r: min(rng.Uniform<Float>(), OneMinusEpsilon)
RngUniform(r) == RMin(RDrawSeq[(r.state % Len(RDrawSeq)) + 1], OneMinusEpsilon)

\* bits of a Float as the hash reads them
FloatBits(a) == Abs(a[1] * 7 + a[2] * 3 + (IF a[1] < 0 THEN 1 ELSE 0))

RECURSIVE Hash(_)
Hash(words) ==
    IF words = <<>> THEN 1
    ELSE (Hash(Tail(words)) * 5 + Head(words) * 3 + 1) % RngMod

-----------------------------------------------------------------------------
(* Leaf numerical routines *)

\* std::numeric_limits<Float>::min(), the smallest positive normal Float
FloatMin == Rat(1, 1024)

\* std::exp(-x) for x >= 0, by the rational stand-in 1 / (1 + x): 1 at 0, strictly
\* decreasing, positive for finite x and 0 at +inf, as exp(-x) is
ExpNeg(x) == RDiv(One, RAdd(One, x))

\* -std::log(1 - u) for u in [0, 1), by the stand-in u / (1 - u): 0 at 0, increasing
NegLog1m(u) == RDiv(u, RSub(One, u))

\* SampleExponential(u, a) = -log(1 - u) / a
SampleExponential(u, a) == RDiv(NegLog1m(u), a)

\* LayeredBxDF::Tr(dz, w)
Tr(dz, wz) ==
    IF RLe(RAbs(dz), FloatMin) THEN One
    ELSE ExpNeg(RAbs(RDiv(dz, wz)))

\* PowerHeuristic(nf, fPdf, ng, gPdf) with nf = ng = 1
PowerHeuristic(fPdf, gPdf) ==
    IF IsInf(fPdf) THEN One
    ELSE RDiv(Sqr(fPdf), RAdd(Sqr(fPdf), Sqr(gPdf)))

AbsCosTheta(wz) == RAbs(wz)

BSDFSampleIsReflection(bs) == IsReflective(bs.flags)

BSDFSampleIsTransmission(bs) == IsTransmissive(bs.flags)

-----------------------------------------------------------------------------
(* The draws of a call and what the samplers return for them *)

Calls == {1, 2}

\* a generator that the calls share: the one of the first call
RngOf_Shared(s) == call[1].rng

\* the generator of a call: a local of the method, captured by its lambda r
RngOf(s) == s.rng

\* the i-th next r() of a call (i = 0 is the next one)
DrawSet(s, i, needed) ==
    IF ~needed THEN {Zero}
    ELSE IF rngMode = "any" THEN RDraws
    ELSE {RngUniform(RngSkip(RngOf(s), i))}

\* the arguments uc = r(), u = Point2f(r(), r()) of a sampler call, from draw i on
DrawnUc(s, i) == RngUniform(RngSkip(RngOf(s), i))

DrawnU(s, i) ==
    IF argOrder = "ltr"
    THEN <<RngUniform(RngSkip(RngOf(s), i + 1)), RngUniform(RngSkip(RngOf(s), i + 2))>>
    ELSE <<RngUniform(RngSkip(RngOf(s), i + 2)), RngUniform(RngSkip(RngOf(s), i + 1))>>

\* a concrete interface: the lobe is selected by uc, the direction and the values by u
HashedSample(ifl, woz, uc, u, mode, sampleFlags) ==
    LET bits == (ifl \cap ReflTransAll) \cap sampleFlags
        bit == IF bits = ReflTransAll
               THEN (IF RLt(uc, Half) THEN "Reflection" ELSE "Transmission")
               ELSE CHOOSE b \in bits : TRUE
        mag == IF u[1] = Zero THEN Zero ELSE IF u[1] = Half THEN Half ELSE One
        pdf == IF u[2] = Half THEN Rat(2, 1) ELSE Half
        f == IF mode = "Radiance" THEN Spectrum(One) ELSE Tinted(One)
    IN  IF bits = {} THEN NoSample
        ELSE BSDFSample(f, SampledZ(woz, bit, mag), pdf, (ifl \ ReflTransAll) \cup {bit})

\* interface.Sample_f(wo, uc, u, mode, sampleFlags)
IfaceOutcomes(ifl, woz, uc, u, mode, sampleFlags) ==
    IF rngMode = "any" THEN IfaceSamples(ifl, woz, sampleFlags)
    ELSE {HashedSample(ifl, woz, uc, u, mode, sampleFlags)}

\* a concrete phase function sample
HashedPhase(woz, u) ==
    LET mag == IF u[1] = Zero THEN Zero ELSE IF u[1] = Half THEN Half ELSE One
    IN  [present |-> TRUE, p |-> Half, pdf |-> Half,
         wi |-> IF RLt(u[2], Half) THEN RNeg(mag) ELSE mag]

\* phase.Sample_p(wo, u)
PhaseOutcomes(woz, u) ==
    IF rngMode = "any" THEN PhaseSamples ELSE {HashedPhase(woz, u)}

-----------------------------------------------------------------------------
(* A call on the layered instance: arguments, the method's locals, the result *)

\* the Russian roulette of the last iteration of a walk: whether it was played, at
\* which depth, on which throughput x (start: the throughput the walk began with), with
\* which q and draw u, and what it rescaled
NoRoulette ==
    [played |-> FALSE, depth |-> 0, start |-> Zero, x |-> Zero, q |-> Zero, u |-> Zero,
     from |-> Zero, to |-> Zero]

\* a walk begins with throughput x
WalkStarts(x) == [NoRoulette EXCEPT !.start = x]

IdleCall ==
    [op |-> "none", pc |-> "idle",
     wo |-> Zero, wi |-> Zero, uc |-> Zero, u |-> <<Zero, Zero>>,
     mode |-> "Radiance", sampleFlags |-> ReflTransAll,
     flipWi |-> FALSE, enteredTop |-> FALSE,
     w |-> Zero, z |-> Zero, f |-> Spectrum(Zero), pdf |-> Zero, depth |-> 0,
     rng |-> [state |-> 0, inc |-> 1],
     pdfSum |-> Zero, s |-> 0, beta |-> Spectrum(Zero), wis |-> NoSample,
     bs |-> NoSample, ps |-> NoPhaseSample, ev |-> "none", rr |-> FALSE,
     res |-> NoSample, val |-> Zero, steps |-> 0, walkSum |-> Spectrum(Zero),
     roulette |-> NoRoulette, drawn |-> <<"none", "none">>]

\* the locals of a method are gone when it returns
Locals(s) ==
    [s EXCEPT !.w = Zero, !.z = Zero, !.f = Spectrum(Zero), !.pdf = Zero,
              !.rng = IdleCall.rng, !.beta = Spectrum(Zero), !.wis = NoSample,
              !.drawn = IdleCall.drawn]

\* one more iteration of a walk loop has begun (steps counts them over the call)
Iterated(s) == [s EXCEPT !.steps = @ + 1]

\* the roulette of this iteration, as the call played it
Rouletted(s, rr, x, q, u, from, to) ==
    [s EXCEPT !.roulette = IF rr THEN [played |-> TRUE, depth |-> s.depth,
                                       start |-> @.start, x |-> x,
                                       q |-> q, u |-> u, from |-> from, to |-> to]
                           ELSE [WalkStarts(@.start) EXCEPT !.depth = s.depth, !.x = x]]

\* return r from Sample_f; of the call are kept: ev, the statement that returned, bs,
\* the interface sample it read, and depth, the iterations completed
Return(s, r, ev, bs) ==
    [Locals(s) EXCEPT !.pc = "done", !.res = r, !.ev = ev, !.bs = bs]

\* a failed CHECK() ends the process
Abort(s) == [Locals(s) EXCEPT !.pc = "aborted", !.ev = "CHECK"]

\* locals that are shared: a step of call c also leaves its generator with the others
Upd_Spill(c, n) ==
    call' = [d \in DOMAIN call |-> IF d = c THEN n ELSE [call[d] EXCEPT !.rng = n.rng]]

\* a step of call c writes the locals of c: every call has its own (automatic storage)
Upd(c, n) == call' = [call EXCEPT ![c] = n]

\* the members of the layered instance
LayeredMembers == <<top, bottom, thickness, g, albedo, config>>

Instance == <<config, top, bottom, thickness, albedo, g, seed, argOrder, rngMode>>

-----------------------------------------------------------------------------
(* LayeredBxDF::Sample_f *)

\* the directions a caller passes: below, grazing, above
CallDirs == {RNeg(One), Zero, Half}

\* under "any" the samplers' results range over those of either mode
CallModes == IF rngMode = "any" THEN {"Radiance"} ELSE TransportModes

\* the sample values a caller passes: under "any" they are not read after the entry
CallDraws == IF rngMode = "any" THEN {Zero} ELSE {Zero, OneMinusEpsilon}

\* the arguments of a call
Arguments(s) ==
    [wo |-> s.wo, wi |-> s.wi, uc |-> s.uc, u |-> s.u, mode |-> s.mode,
     sampleFlags |-> s.sampleFlags]

\* Sample_f(wo, uc, u, mode, sampleFlags)
SampleFArguments ==
    [wo : CallDirs, wi : {IdleCall.wi}, uc : CallDraws, u : CallDraws \X CallDraws,
     mode : CallModes, sampleFlags : ReflTransFlags]

\* PDF(wo, wi, mode, sampleFlags)
PDFArguments ==
    [wo : CallDirs, wi : CallDirs \cup {One}, uc : {IdleCall.uc}, u : {IdleCall.u},
     mode : CallModes, sampleFlags : ReflTransFlags]

\* f(wo, wi, mode)
FArguments ==
    [wo : CallDirs, wi : CallDirs \cup {One}, uc : {IdleCall.uc}, u : {IdleCall.u},
     mode : CallModes, sampleFlags : {IdleCall.sampleFlags}]

\* the third call of the specification of concurrent calls
Other == Cardinality(Calls) + 1

\* the arguments of the calls when three are made: radiance transport, all lobes
Narrowed(all) ==
    {a \in all : a.mode = "Radiance" /\ a.sampleFlags = ReflTransAll
                 /\ a.u[1] = a.u[2] /\ a.wo # Zero}

\* the arguments that call c of method op is made with: when another call has been
\* made, c is the second run of that call, with the same method and arguments
\* a third call, Other, is made with arguments of its own; where it is made, the
\* first call has ended before the next ones begin
Twin(c, op, all) ==
    LET made == {d \in DOMAIN call \ {c, Other} : call[d].op # "none"}
        pool == IF Other \in DOMAIN call THEN Narrowed(all) ELSE all
    IN  IF Other \in DOMAIN call /\ c # 1 /\ call[1].pc \notin {"done", "aborted"} THEN {}
        ELSE IF c = Other \/ made = {} THEN pool
        ELSE {a \in pool : \A d \in made : call[d].op = op /\ Arguments(call[d]) = a}

\* an entrance test that takes the top whenever the instance is two-sided
EnteredTop_TwoSided(wo) == config.twoSided \/ RSign(wo) > 0

\* bool enteredTop = wo.z > 0, on wo after the flip
EnteredTop(wo) == RSign(wo) > 0

\* BadSample without its test of the density
BadSample_NoPdfTest(bs) == ~bs.present \/ ~SNonZero(bs.f) \/ bs.wi = Zero

\* BadSample without its test of the value
BadSample_NoValueTest(bs) == ~bs.present \/ bs.pdf = Zero \/ bs.wi = Zero

\* the test made on the entrance sample and on every interface sample of the walk
BadSample(bs) ==
    ~bs.present \/ ~SNonZero(bs.f) \/ bs.pdf = Zero \/ bs.wi = Zero

\* the test made on a phase function sample
BadPhase(ps) == ~ps.present \/ ps.pdf = Zero \/ ps.wi = Zero

\* ExitFlags with the two lobes exchanged
ExitFlags_Swapped(woz, wz) ==
    IF SameHemisphereZ(woz, wz) THEN GlossyTransmission ELSE GlossyReflection

\* the flags of a walk that has left the layers
ExitFlags(woz, wz) ==
    IF SameHemisphereZ(woz, wz) THEN GlossyReflection ELSE GlossyTransmission

\* an entrance reflection returned in the flipped frame
EntranceReflection_Unflipped(bs, flipWi) == bs

\* the sample returned for the entrance reflection bs
EntranceReflection(bs, flipWi) ==
    IF flipWi THEN [bs EXCEPT !.wi = RNeg(bs.wi)] ELSE bs

\* the sample returned when the walk leaves the layers with direction wz
ExitSample(f, wz, pdf, woz, flipWi) ==
    BSDFSample(f, IF flipWi THEN RNeg(wz) ELSE wz, pdf, ExitFlags(woz, wz))

\* the Russian roulette test of an iteration
\* a roulette that would not wait for depth > 3
RRApplies_AtAnyDepth(depth, rrBeta) == RLt(rrBeta, Quarter)

RRApplies(depth, rrBeta) == depth > 3 /\ RLt(rrBeta, Quarter)

RRq(rrBeta) == RMax(Zero, RSub(One, rrBeta))

\* the interface the walk meets at height z
InterfaceAt(z) == IF z = Zero THEN bottom ELSE top

\* Sample_f up to the start of the walk: the flip, the entrance sample, its tests,
\* the generator and the walk's variables
SampleF_Call(c, args) ==
    /\ c \in DOMAIN call /\ call[c].pc = "idle"
    /\ \E a \in args :
        LET woIn == a.wo
            mode == a.mode
            sf == a.sampleFlags
            uc == a.uc
            u1 == a.u[1]
            u2 == a.u[2]
            flipWi == config.twoSided /\ RSign(woIn) < 0
            wo == IF flipWi THEN RNeg(woIn) ELSE woIn
            enteredTop == EnteredTop(wo)
            s == [IdleCall EXCEPT !.op = "Sample_f", !.wo = woIn, !.uc = uc,
                                  !.u = <<u1, u2>>, !.mode = mode, !.sampleFlags = sf,
                                  !.flipWi = flipWi, !.enteredTop = enteredTop]
        IN  IF sf # ReflTransAll THEN Upd(c, Abort(s))
            ELSE \E bs \in IfaceOutcomes(IF enteredTop THEN top ELSE bottom, wo, uc,
                                         <<u1, u2>>, mode, ReflTransAll) :
                   IF BadSample(bs) THEN Upd(c, Return(s, NoSample, "entryBad", bs))
                   ELSE IF BSDFSampleIsReflection(bs)
                   THEN Upd(c, Return(s, EntranceReflection(bs, flipWi),
                                      "entryReflection", bs))
                   ELSE Upd(c, [s EXCEPT
                            !.pc = "walk", !.ev = "entered",
                            !.w = bs.wi,
                            !.rng = RngNew(Hash(<<seed, FloatBits(wo)>>),
                                           Hash(<<FloatBits(uc), FloatBits(u1),
                                                  FloatBits(u2)>>)),
                            !.f = SScale(bs.f, AbsCosTheta(bs.wi)),
                            !.pdf = bs.pdf,
                            !.z = IF enteredTop THEN thickness ELSE Zero,
                            !.depth = 0,
                            !.roulette = WalkStarts(RDiv(
                                MaxComponentValue(SScale(bs.f, AbsCosTheta(bs.wi))),
                                bs.pdf))])
    /\ UNCHANGED <<Instance, bx>>

\* a caller's call of Sample_f
SampleF_Enter(c) == SampleF_Call(c, Twin(c, "Sample_f", SampleFArguments))

\* the interface event of an iteration: the walk is at height z1 with throughput f1,
\* density pdf1, and n draws of this iteration are used
SampleF_Interface(c, s, f1, pdf1, z1, n, rr) ==
    LET wo == IF s.flipWi THEN RNeg(s.wo) ELSE s.wo
    IN
    \E bs \in IfaceOutcomes(InterfaceAt(z1), RNeg(s.w), DrawnUc(s, n), DrawnU(s, n),
                            s.mode, ReflTransAll) :
        IF BadSample(bs) THEN Upd(c, Return(s, NoSample, "ifaceBad", bs))
        ELSE IF BSDFSampleIsTransmission(bs)
        THEN Upd(c, [Return(s, ExitSample(SMul(f1, bs.f), bs.wi, RMul(pdf1, bs.pdf),
                                          wo, s.flipWi), "exit", bs)
                     EXCEPT !.rr = @ \/ rr])
        ELSE Upd(c, [s EXCEPT
                 !.f = SScale(SMul(f1, bs.f), AbsCosTheta(bs.wi)),
                 !.pdf = RMul(pdf1, bs.pdf),
                 !.w = bs.wi, !.z = z1, !.depth = @ + 1,
                 !.rng = RngSkip(@, n + 3),
                 !.ev = "reflected", !.rr = @ \/ rr])

\* a DCHECK that would test the direction the wrong way round
DCheck_Swapped(z1, wz) == IF z1 = Zero THEN RSign(wz) > 0 ELSE RSign(wz) < 0

\* if (z == 0) DCHECK_LT(w.z, 0); else DCHECK_GT(w.z, 0);
DCheck(z1, wz) == IF z1 = Zero THEN RSign(wz) < 0 ELSE RSign(wz) > 0

\* a flight has reached the boundary at z1: a failed DCHECK ends the process in a
\* debug build and is no statement in a release build
SampleF_Boundary(c, s, pdf1, z1, n, rr) ==
    IF DCheck(z1, s.w) THEN SampleF_Interface(c, s, s.f, pdf1, z1, n, rr)
    ELSE \/ Upd(c, [Abort(s) EXCEPT !.ev = "DCHECK"])
         \/ SampleF_Interface(c, s, s.f, pdf1, z1, n, rr)

\* one iteration of the walk
SampleF_Step(c) ==
    LET s0 == Iterated(call[c])
        rrBeta == RDiv(MaxComponentValue(s0.f), s0.pdf)
        rr == RRApplies(s0.depth, rrBeta)
        q == RRq(rrBeta)
        pdf1 == IF rr THEN RMul(s0.pdf, RSub(One, q)) ELSE s0.pdf
        n1 == IF rr THEN 1 ELSE 0
    IN
    /\ c \in DOMAIN call
    /\ s0.op = "Sample_f" /\ s0.pc = "walk" /\ s0.depth < config.maxDepth
    /\ \E uRR \in DrawSet(s0, 0, rr) :
         LET s == Rouletted(s0, rr, rrBeta, q, uRR, s0.pdf, pdf1) IN
           IF rr /\ RLt(uRR, q) THEN Upd(c, Return(s, NoSample, "roulette", s.bs))
           ELSE IF s.w = Zero THEN Upd(c, Return(s, NoSample, "wz0", s.bs))
           ELSE IF SNonZero(albedo)
           THEN \E uF \in DrawSet(s, n1, TRUE) :
                  LET dz == SampleExponential(uF, RDiv(One, AbsCosTheta(s.w)))
                      zp == IF RSign(s.w) > 0 THEN RAdd(s.z, dz) ELSE RSub(s.z, dz)
                  IN  IF zp = s.z THEN Upd(c, Return(s, NoSample, "noFlight", s.bs))
                      ELSE IF RLt(Zero, zp) /\ RLt(zp, thickness)
                      THEN \E ps \in PhaseOutcomes(RNeg(s.w), DrawnU(s, n1)) :
                             IF BadPhase(ps)
                             THEN Upd(c, [Return(s, NoSample, "phaseBad", s.bs)
                                              EXCEPT !.ps = ps])
                             ELSE Upd(c, [s EXCEPT
                                      !.f = SScale(SMul(@, albedo), ps.p),
                                      !.pdf = RMul(pdf1, ps.pdf),
                                      !.w = ps.wi, !.z = zp, !.depth = @ + 1,
                                      !.rng = RngSkip(@, n1 + 3),
                                      !.ev = "scattered", !.rr = @ \/ rr])
                      ELSE SampleF_Boundary(c, s, pdf1, Clamp(zp, Zero, thickness),
                                            n1 + 1, rr)
           ELSE SampleF_Interface(c, s, SScale(s.f, Tr(thickness, s.w)), pdf1,
                                  IF s.z = thickness THEN Zero ELSE thickness, n1, rr)
    /\ UNCHANGED <<Instance, bx>>

\* the walk has run maxDepth iterations: return {}
SampleF_Exhausted(c) ==
    /\ c \in DOMAIN call
    /\ call[c].op = "Sample_f" /\ call[c].pc = "walk"
    /\ call[c].depth >= config.maxDepth
    /\ Upd(c, Return(call[c], NoSample, "exhausted", call[c].bs))
    /\ UNCHANGED <<Instance, bx>>

\* the caller takes the result; the instance can be called again
Finish(c) ==
    /\ c \in DOMAIN call /\ call[c].pc = "done"
    /\ Upd(c, IdleCall)
    /\ UNCHANGED <<Instance, bx>>

-----------------------------------------------------------------------------
(* The layered instance and the specification of its calls *)

\* the constructor floors the thickness to the smallest positive Float
Thicknesses == {RMax(t, FloatMin) : t \in {Zero, One}}

NoBx == [variant |-> "none"]

\* Sample_f reads every field of the instance but config.nSamples, held at its default
Init ==
    /\ config \in [maxDepth : {0, MaxDepthCfg}, nSamples : {1}, twoSided : BOOLEAN]
    /\ top \in TopIfaces
    /\ bottom \in {DiffuseReflection, {"Diffuse", "Reflection", "Transmission"}}
    /\ thickness \in Thicknesses
    /\ g = Zero
    /\ albedo \in {Spectrum(Zero), Tinted(Half)}
    /\ bx = NoBx
    /\ seed = 0
    /\ argOrder = "ltr"
    /\ rngMode = "any"
    /\ call = [c \in {1} |-> IdleCall]

\* one Sample_f call at a time, under every sequence of draws
Next ==
    \E c \in Calls :
        \/ SampleF_Enter(c)
        \/ SampleF_Step(c)
        \/ SampleF_Exhausted(c)
        \/ Finish(c)

Spec == Init /\ [][Next]_vars

-----------------------------------------------------------------------------
(* LayeredBxDF::PDF *)

Pi == Rat(22, 7)

\* a concrete interface density
HashedPdf(ifl, woz, wiz, mode, sampleFlags) ==
    LET bit == IF SameHemisphereZ(woz, wiz) THEN "Reflection" ELSE "Transmission"
    IN  IF IsSpecular(ifl) \/ bit \notin (ifl \cap sampleFlags) THEN Zero
        ELSE IF mode = "Radiance" THEN RAbs(wiz) ELSE Half

\* interface.PDF(wo, wi, mode, sampleFlags)
IfacePdfOutcomes(ifl, woz, wiz, mode, sampleFlags) ==
    IF rngMode = "any" THEN IfacePdfVals(ifl, sampleFlags)
    ELSE {HashedPdf(ifl, woz, wiz, mode, sampleFlags)}

\* TopOrBottomBxDF::IsNonSpecular
IsNonSpecular(ifl) == IsDiffuse(ifl) \/ IsGlossy(ifl)

\* the arguments r(), {r(), r()} of a sampler call, from draw i on: the braced list
\* is evaluated left to right, before or after the r() beside it
BracedUc(s, i) ==
    IF argOrder = "ltr" THEN RngUniform(RngSkip(RngOf(s), i))
    ELSE RngUniform(RngSkip(RngOf(s), i + 2))

BracedU(s, i) ==
    IF argOrder = "ltr"
    THEN <<RngUniform(RngSkip(RngOf(s), i + 1)), RngUniform(RngSkip(RngOf(s), i + 2))>>
    ELSE <<RngUniform(RngSkip(RngOf(s), i)), RngUniform(RngSkip(RngOf(s), i + 1))>>

\* the test on wos and wis in the TRT estimate
TRTUsable(bs) == bs.present /\ SNonZero(bs.f) /\ RLt(Zero, bs.pdf)

\* the test on the reflected sample rs in the TRT estimate
TRTBadRs(rs) == ~rs.present \/ ~SNonZero(rs.f) \/ rs.pdf = Zero

\* the test on wos in the TT estimate
TTSkipWos(wos) == BadSample(wos) \/ BSDFSampleIsReflection(wos)

\* the test made after wis is drawn in the TT estimate: it reads wos again
TTSkipWis(wos, wis) ==
    ~wis.present \/ ~SNonZero(wos.f) \/ wos.pdf = Zero \/ wos.wi = Zero
        \/ BSDFSampleIsReflection(wis)

\* PDFResult with the two ends of the Lerp exchanged
PDFResult_Swapped(pdfSum, nSamples) ==
    Lerp(Rat(9, 10), RDiv(pdfSum, Rat(nSamples, 1)), RDiv(One, RMul(Rat(4, 1), Pi)))

\* the value PDF returns
PDFResult(pdfSum, nSamples) ==
    Lerp(Rat(9, 10), RDiv(One, RMul(Rat(4, 1), Pi)), RDiv(pdfSum, Rat(nSamples, 1)))

\* PDF up to its loop: the CHECK, the flip, the generator, the entrance reflection
PDF_Call(c, args) ==
    /\ c \in DOMAIN call /\ call[c].pc = "idle"
    /\ \E a \in args :
        LET woIn == a.wo
            wiIn == a.wi
            mode == a.mode
            sf == a.sampleFlags
            flip == config.twoSided /\ RSign(woIn) < 0
            wo == IF flip THEN RNeg(woIn) ELSE woIn
            wi == IF flip THEN RNeg(wiIn) ELSE wiIn
            enteredTop == EnteredTop(wo)
            s == [IdleCall EXCEPT !.op = "PDF", !.wo = woIn, !.wi = wiIn, !.mode = mode,
                                  !.sampleFlags = sf, !.flipWi = flip,
                                  !.enteredTop = enteredTop]
        IN  IF sf # ReflTransAll THEN Upd(c, Abort(s))
            ELSE \E p \in (IF SameHemisphereZ(wo, wi)
                           THEN IfacePdfOutcomes(IF enteredTop THEN top ELSE bottom,
                                                 wo, wi, mode, {"Reflection"})
                           ELSE {Zero}) :
                   Upd(c, [s EXCEPT
                       !.pc = "pdfLoop",
                       !.rng = RngNew(Hash(<<seed, FloatBits(wo)>>),
                                      Hash(<<FloatBits(wi)>>)),
                       !.pdfSum = IF SameHemisphereZ(wo, wi)
                                  THEN RMul(Rat(config.nSamples, 1), p) ELSE Zero,
                       !.s = 0])
    /\ UNCHANGED <<Instance, bx>>

\* a caller's call of PDF
PDF_Enter(c) == PDF_Call(c, Twin(c, "PDF", PDFArguments))

\* what a drawn sample is to an estimate: absent, present with a zero value or a zero
\* density, present with a direction of z = 0 only, or usable
SampleKind(bs) ==
    IF ~bs.present THEN "absent"
    ELSE IF ~SNonZero(bs.f) \/ bs.pdf = Zero THEN "zero"
    ELSE IF bs.wi = Zero THEN "grazing"
    ELSE "usable"

\* wos and wis, the samples an iteration of PDF has drawn, and ev, how it ended
Estimated(s, ev, wos, wis) ==
    [s EXCEPT !.ev = ev, !.drawn = <<SampleKind(wos), SampleKind(wis)>>]

\* the TRT estimate of one iteration
PDF_TRT(c, s, wo, wi) ==
    LET rI == IF s.enteredTop THEN bottom ELSE top
        tI == IF s.enteredTop THEN top ELSE bottom
        Go(e, sum, n) == Upd(c, [e EXCEPT !.pdfSum = sum, !.s = @ + 1,
                                          !.rng = RngSkip(@, n)])
    IN
    \E wos \in IfaceOutcomes(tI, wo, BracedUc(s, 0), BracedU(s, 0), s.mode,
                             {"Transmission"}),
       wis \in IfaceOutcomes(tI, wi, BracedUc(s, 3), BracedU(s, 3), NotMode(s.mode),
                             {"Transmission"}) :
        IF ~(TRTUsable(wos) /\ TRTUsable(wis))
        THEN Go(Estimated(s, "trtSkip", wos, wis), s.pdfSum, 6)
        ELSE IF ~IsNonSpecular(tI)
        THEN \E p \in IfacePdfOutcomes(rI, RNeg(wos.wi), RNeg(wis.wi), s.mode,
                                       ReflTransAll) :
                Go(Estimated(s, "trt", wos, wis), RAdd(s.pdfSum, p), 6)
        ELSE \E rs \in IfaceOutcomes(rI, RNeg(wos.wi), BracedUc(s, 6), BracedU(s, 6),
                                     s.mode, ReflTransAll) :
                IF TRTBadRs(rs)
                THEN Go(Estimated(s, "trtBadRs", wos, wis), s.pdfSum, 9)
                ELSE \E tPDF \in IfacePdfOutcomes(tI, RNeg(rs.wi), wi, s.mode,
                                                  ReflTransAll) :
                       IF ~IsNonSpecular(rI)
                       THEN Go(Estimated(s, "trt", wos, wis), RAdd(s.pdfSum, tPDF), 9)
                       ELSE \E rPDF \in IfacePdfOutcomes(rI, RNeg(wos.wi), RNeg(wis.wi),
                                                         s.mode, ReflTransAll) :
                              Go(Estimated(s, "trt", wos, wis),
                                 RAdd(RAdd(s.pdfSum,
                                              RMul(PowerHeuristic(rs.pdf, tPDF), tPDF)),
                                         RMul(PowerHeuristic(wis.pdf, rPDF), rPDF)), 9)

\* the TT estimate of one iteration
PDF_TT(c, s, wo, wi) ==
    LET toI == IF s.enteredTop THEN top ELSE bottom
        tiI == IF s.enteredTop THEN bottom ELSE top
        Go(e, sum, n) == Upd(c, [e EXCEPT !.pdfSum = sum, !.s = @ + 1,
                                          !.rng = RngSkip(@, n)])
    IN
    \E wos \in IfaceOutcomes(toI, wo, DrawnUc(s, 0), DrawnU(s, 0), s.mode,
                             ReflTransAll) :
        IF TTSkipWos(wos)
        THEN Go(Estimated(s, "ttSkipWos", wos, NoSample), s.pdfSum, 3)
        ELSE \E wis \in IfaceOutcomes(tiI, wi, DrawnUc(s, 3), DrawnU(s, 3),
                                      NotMode(s.mode), ReflTransAll) :
               IF TTSkipWis(wos, wis)
               THEN Go(Estimated(s, "ttSkipWis", wos, wis), s.pdfSum, 6)
               ELSE \E pti \in IfacePdfOutcomes(tiI, RNeg(wos.wi), wi, s.mode,
                                                ReflTransAll),
                       pto \in IfacePdfOutcomes(toI, wo, RNeg(wis.wi), s.mode,
                                                ReflTransAll) :
                      IF IsSpecular(toI)
                      THEN Go(Estimated(s, "tt", wos, wis), RAdd(s.pdfSum, pti), 6)
                      ELSE IF IsSpecular(tiI)
                      THEN Go(Estimated(s, "tt", wos, wis), RAdd(s.pdfSum, pto), 6)
                      ELSE Go(Estimated(s, "tt", wos, wis),
                              RAdd(s.pdfSum, RDiv(RAdd(pto, pti), Rat(2, 1))), 6)

\* one iteration of the loop over the nSamples estimates
PDF_Iter(c) ==
    LET s == call[c]
        wo == IF s.flipWi THEN RNeg(s.wo) ELSE s.wo
        wi == IF s.flipWi THEN RNeg(s.wi) ELSE s.wi
    IN
    /\ c \in DOMAIN call
    /\ s.op = "PDF" /\ s.pc = "pdfLoop" /\ s.s < config.nSamples
    /\ IF SameHemisphereZ(wo, wi) THEN PDF_TRT(c, s, wo, wi) ELSE PDF_TT(c, s, wo, wi)
    /\ UNCHANGED <<Instance, bx>>

\* the loop is over: return the mixture of the estimate and the constant density
PDF_Return(c) ==
    LET s == call[c] IN
    /\ c \in DOMAIN call
    /\ s.op = "PDF" /\ s.pc = "pdfLoop" /\ s.s >= config.nSamples
    /\ Upd(c, [Locals(s) EXCEPT !.pc = "done", !.ev = "return",
                                !.val = PDFResult(s.pdfSum, config.nSamples)])
    /\ UNCHANGED <<Instance, bx>>

\* PDF reads config.nSamples, config.twoSided and the two interfaces; the fields it
\* does not read are held at one value
InitPDF ==
    /\ config \in [maxDepth : {MaxDepthCfg}, nSamples : 0 .. MaxNSamples,
                   twoSided : BOOLEAN]
    /\ top \in TopIfaces
    /\ bottom \in BottomIfaces
    /\ thickness = One
    /\ g = Zero
    /\ albedo = Spectrum(Zero)
    /\ bx = NoBx
    /\ seed = 0
    /\ argOrder = "ltr"
    /\ rngMode = "any"
    /\ call = [c \in {1} |-> IdleCall]

\* one PDF call at a time, under every sequence of draws
NextPDF ==
    \E c \in Calls :
        \/ PDF_Enter(c)
        \/ PDF_Iter(c)
        \/ PDF_Return(c)
        \/ Finish(c)

SpecPDF == InitPDF /\ [][NextPDF]_vars

-----------------------------------------------------------------------------
(* LayeredBxDF::f *)

\* a concrete interface value
HashedF(ifl, woz, wiz, mode) ==
    LET bit == IF SameHemisphereZ(woz, wiz) THEN "Reflection" ELSE "Transmission"
    IN  IF IsSpecular(ifl) \/ bit \notin ifl THEN Spectrum(Zero)
        ELSE IF mode = "Radiance" THEN Spectrum(Half) ELSE Tinted(Half)

\* every value interface.f(wo, wi, mode) may have
IfaceFVals(ifl) ==
    IF IsSpecular(ifl) THEN {Spectrum(Zero)} ELSE {Spectrum(Zero), Spectrum(Half)}

\* interface.f(wo, wi, mode)
IfaceFOutcomes(ifl, woz, wiz, mode) ==
    IF rngMode = "any" THEN IfaceFVals(ifl) ELSE {HashedF(ifl, woz, wiz, mode)}

\* phase.p(wo, wi) and phase.PDF(wo, wi) of HGPhaseFunction: one value for both
PhaseValue(woz, wiz) == Half

\* the entrance reflection counted once, unscaled
EntranceTerm_Unscaled(fe, nSamples) == fe

\* f = config.nSamples * enterInterface.f(wo, wi, mode)
EntranceTerm(fe, nSamples) == SScale(fe, Rat(nSamples, 1))

\* an exit interface that would always be the one opposite the entrance
ExitIsBottom_Opposite(wo, wi, enteredTop) == enteredTop

\* the exit interface is the bottom one: SameHemisphere(wo, wi) ^ enteredTop
ExitIsBottom(wo, wi, enteredTop) == SameHemisphereZ(wo, wi) # enteredTop

\* f up to its loop: the flip, the interfaces, the entrance reflection, the generator
F_Call(c, args) ==
    /\ c \in DOMAIN call /\ call[c].pc = "idle"
    /\ \E a \in args :
        LET woIn == a.wo
            wiIn == a.wi
            mode == a.mode
            flip == config.twoSided /\ RSign(woIn) < 0
            wo == IF flip THEN RNeg(woIn) ELSE woIn
            wi == IF flip THEN RNeg(wiIn) ELSE wiIn
            enteredTop == EnteredTop(wo)
            s == [IdleCall EXCEPT !.op = "f", !.wo = woIn, !.wi = wiIn, !.mode = mode,
                                  !.flipWi = flip, !.enteredTop = enteredTop]
        IN  \E fe \in (IF SameHemisphereZ(wo, wi)
                       THEN IfaceFOutcomes(IF enteredTop THEN top ELSE bottom, wo, wi, mode)
                       ELSE {Spectrum(Zero)}) :
               Upd(c, [s EXCEPT
                   !.pc = "fLoop", !.ev = "entered",
                   !.f = IF SameHemisphereZ(wo, wi)
                         THEN EntranceTerm(fe, config.nSamples) ELSE Spectrum(Zero),
                   !.rng = RngNew(Hash(<<seed, FloatBits(wo)>>), Hash(<<FloatBits(wi)>>)),
                   !.s = 0])
    /\ UNCHANGED <<Instance, bx>>

\* a caller's call of f
F_Enter(c) == F_Call(c, Twin(c, "f", FArguments))

\* a test of the exit sample that is made only where the medium scatters
SkipsWalk_OnlyWithAlbedo(wis) == SNonZero(albedo) /\ BadSample(wis)

\* if (!wis || !wis->f || wis->pdf == 0 || wis->wi.z == 0) continue;
SkipsWalk(wis) == BadSample(wis)

\* the head of one walk: the entrance sample wos and the exit sample wis for wi
F_Sample(c) ==
    LET s == call[c]
        wo == IF s.flipWi THEN RNeg(s.wo) ELSE s.wo
        wi == IF s.flipWi THEN RNeg(s.wi) ELSE s.wi
        enterI == IF s.enteredTop THEN top ELSE bottom
        exitI == IF ExitIsBottom(wo, wi, s.enteredTop) THEN bottom ELSE top
        Skip(n, ev) == Upd(c, [s EXCEPT !.s = @ + 1, !.rng = RngSkip(@, n), !.ev = ev])
    IN
    /\ c \in DOMAIN call
    /\ s.op = "f" /\ s.pc = "fLoop" /\ s.s < config.nSamples
    /\ \E wos \in IfaceOutcomes(enterI, wo, DrawnUc(s, 0), DrawnU(s, 0), s.mode,
                                {"Transmission"}) :
         IF BadSample(wos) THEN Skip(3, "wosBad")
         ELSE \E wis \in IfaceOutcomes(exitI, wi, DrawnUc(s, 3), DrawnU(s, 3),
                                       NotMode(s.mode), {"Transmission"}) :
                IF SkipsWalk(wis) THEN Skip(6, "wisBad")
                ELSE Upd(c, [s EXCEPT
                         !.pc = "fWalk", !.ev = "walk",
                         !.beta = SDiv(SScale(wos.f, AbsCosTheta(wos.wi)), wos.pdf),
                         !.w = wos.wi,
                         !.z = IF s.enteredTop THEN thickness ELSE Zero,
                         !.wis = wis, !.depth = 0, !.rng = RngSkip(@, 6),
                         !.roulette = WalkStarts(MaxComponentValue(
                             SDiv(SScale(wos.f, AbsCosTheta(wos.wi)), wos.pdf)))])
    /\ UNCHANGED <<Instance, bx>>

\* bs, the sample a walk of f has just drawn at an interface: its lobes
Sampled(s, bs) ==
    [s EXCEPT !.bs = [NoSample EXCEPT !.present = bs.present, !.flags = bs.flags]]

\* the weight of a next-event term: 1 when specular, else the power heuristic
NEEWeight(specular, fPdf, gPdf) == IF specular THEN One ELSE PowerHeuristic(fPdf, gPdf)

\* beta * fExit * weight * Tr, the term added for a new direction wz at height z
ExitTerm(beta, fExit, wt, dz, wz) == SScale(SMul(beta, fExit), RMul(wt, Tr(dz, wz)))

\* a `continue` that would skip the increment of the loop
F_Continue_NoAdvance(c, s, f2, beta2, w2, z2, n, ev) ==
    Upd(c, [s EXCEPT !.f = f2, !.beta = beta2, !.w = w2, !.z = z2,
                     !.rng = RngSkip(@, n), !.ev = ev])

\* the iteration of a walk of f ends with `continue` or at its end: ++depth
F_Continue(c, s, f2, beta2, w2, z2, n, ev) ==
    Upd(c, [s EXCEPT !.f = f2, !.beta = beta2, !.w = w2, !.z = z2, !.depth = @ + 1,
                     !.rng = RngSkip(@, n), !.ev = ev,
                     !.walkSum = SAdd(@, SSub(f2, s.f))])

\* the walk of f ends with `break`: the loop over the walks goes on
F_Break(c, s, f2, n, ev) ==
    Upd(c, [s EXCEPT !.pc = "fLoop", !.f = f2, !.s = @ + 1, !.rng = RngSkip(@, n),
                     !.ev = ev, !.walkSum = SAdd(@, SSub(f2, s.f))])

\* a medium scattering event of a walk of f, at height zp, after n draws
F_Medium(c, s, wi, exitI, exitZ, beta1, zp, n) ==
    LET wis == s.wis
        wt == NEEWeight(IsSpecular(exitI), wis.pdf, PhaseValue(RNeg(s.w), RNeg(wis.wi)))
        f1 == SAdd(s.f,
                   SDiv(SMul(SScale(SMul(beta1, albedo),
                                    RMul(RMul(PhaseValue(RNeg(s.w), RNeg(wis.wi)), wt),
                                         Tr(RSub(zp, exitZ), wis.wi))), wis.f), wis.pdf))
    IN
    \E ps \in PhaseOutcomes(RNeg(s.w), DrawnU(s, n - 1)) :
        IF BadPhase(ps) THEN F_Continue(c, s, f1, beta1, s.w, s.z, n + 2, "phaseBad")
        ELSE LET beta2 == SDiv(SScale(SMul(beta1, albedo), ps.p), ps.pdf)
             IN  IF IsSpecular(exitI)
                 THEN F_Continue(c, s, f1, beta2, ps.wi, zp, n + 2, "scattered")
                 ELSE \E fExit \in IfaceFOutcomes(exitI, RNeg(ps.wi), wi, s.mode),
                         exitPDF \in IfacePdfOutcomes(exitI, RNeg(ps.wi), wi, s.mode,
                                                      {"Transmission"}) :
                        F_Continue(c, s,
                                 IF SNonZero(fExit)
                                 THEN SAdd(f1, ExitTerm(beta2, fExit,
                                               PowerHeuristic(ps.pdf, exitPDF),
                                               RSub(zp, exitZ), ps.wi))
                                 ELSE f1,
                                 beta2, ps.wi, zp, n + 2, "scattered")

\* an interface event of a walk of f, at height z1 with throughput beta1, after n draws
F_Interface(c, s, wi, exitI, nonExitI, exitZ, beta1, z1, n) ==
    LET wis == s.wis
        neePdfs == IF IsSpecular(nonExitI) \/ IsSpecular(exitI) THEN {Zero}
                   ELSE IfacePdfOutcomes(nonExitI, RNeg(s.w), RNeg(wis.wi), s.mode,
                                         ReflTransAll)
        neeFs == IF IsSpecular(nonExitI) THEN {Spectrum(Zero)}
                 ELSE IfaceFOutcomes(nonExitI, RNeg(s.w), RNeg(wis.wi), s.mode)
    IN
    IF z1 = exitZ
    THEN \E bs \in IfaceOutcomes(exitI, RNeg(s.w), DrawnUc(s, n), DrawnU(s, n), s.mode,
                                 {"Reflection"}) :
            IF BadSample(bs) THEN F_Break(c, Sampled(s, bs), s.f, n + 3, "exitBad")
            ELSE F_Continue(c, Sampled(s, bs), s.f,
                            SDiv(SScale(SMul(beta1, bs.f), AbsCosTheta(bs.wi)), bs.pdf),
                            bs.wi, z1, n + 3, "exitReflected")
    ELSE \E fN \in neeFs, pN \in neePdfs :
            LET wt == NEEWeight(IsSpecular(exitI), wis.pdf, pN)
                f1 == IF IsSpecular(nonExitI) THEN s.f
                      ELSE SAdd(s.f,
                                SDiv(SMul(SScale(SMul(beta1, fN),
                                                 RMul(RMul(AbsCosTheta(wis.wi), wt),
                                                      Tr(thickness, wis.wi))), wis.f),
                                     wis.pdf))
            IN
            \E bs \in IfaceOutcomes(nonExitI, RNeg(s.w), DrawnUc(s, n), DrawnU(s, n),
                                    s.mode, {"Reflection"}) :
                IF BadSample(bs) THEN F_Break(c, Sampled(s, bs), f1, n + 3, "nonExitBad")
                ELSE LET beta2 == SDiv(SScale(SMul(beta1, bs.f), AbsCosTheta(bs.wi)),
                                       bs.pdf)
                     IN  IF IsSpecular(exitI)
                         THEN F_Continue(c, Sampled(s, bs), f1, beta2, bs.wi, z1, n + 3,
                                         "reflected")
                         ELSE \E fExit \in IfaceFOutcomes(exitI, RNeg(bs.wi), wi, s.mode),
                                 exitPDF \in (IF IsSpecular(nonExitI) THEN {Zero}
                                              ELSE IfacePdfOutcomes(exitI, RNeg(bs.wi), wi,
                                                       s.mode, {"Transmission"})) :
                                F_Continue(c, Sampled(s, bs),
                                    IF SNonZero(fExit)
                                    THEN SAdd(f1, ExitTerm(beta2, fExit,
                                                  NEEWeight(IsSpecular(nonExitI), bs.pdf,
                                                            exitPDF),
                                                  thickness, bs.wi))
                                    ELSE f1,
                                    beta2, bs.wi, z1, n + 3, "reflected")

\* one iteration of a walk of f
F_Step(c) ==
    LET s0 == Iterated(call[c])
        wo == IF s0.flipWi THEN RNeg(s0.wo) ELSE s0.wo
        wi == IF s0.flipWi THEN RNeg(s0.wi) ELSE s0.wi
        exitBottom == ExitIsBottom(wo, wi, s0.enteredTop)
        exitI == IF exitBottom THEN bottom ELSE top
        nonExitI == IF exitBottom THEN top ELSE bottom
        exitZ == IF exitBottom THEN Zero ELSE thickness
        bmax == MaxComponentValue(s0.beta)
        rr == RRApplies(s0.depth, bmax)
        q == RRq(bmax)
        beta1 == IF rr THEN SDiv(s0.beta, RSub(One, q)) ELSE s0.beta
        n1 == IF rr THEN 1 ELSE 0
    IN
    /\ c \in DOMAIN call
    /\ s0.op = "f" /\ s0.pc = "fWalk" /\ s0.depth < config.maxDepth
    /\ \E uRR \in DrawSet(s0, 0, rr) :
         LET s == Rouletted(s0, rr, bmax, q, uRR, s0.beta, beta1) IN
           IF rr /\ RLt(uRR, q) THEN F_Break(c, s, s.f, 1, "roulette")
           ELSE IF SNonZero(albedo)
           THEN \E uF \in DrawSet(s, n1, TRUE) :
                  LET dz == SampleExponential(uF, RDiv(One, RAbs(s.w)))
                      zp == IF RSign(s.w) > 0 THEN RAdd(s.z, dz) ELSE RSub(s.z, dz)
                  IN  IF zp = s.z
                      THEN F_Continue(c, s, s.f, beta1, s.w, s.z, n1 + 1, "noFlight")
                      ELSE IF RLt(Zero, zp) /\ RLt(zp, thickness)
                      THEN F_Medium(c, s, wi, exitI, exitZ, beta1, zp, n1 + 1)
                      ELSE F_Interface(c, s, wi, exitI, nonExitI, exitZ, beta1,
                                       Clamp(zp, Zero, thickness), n1 + 1)
           ELSE F_Interface(c, s, wi, exitI, nonExitI, exitZ,
                            SScale(beta1, Tr(thickness, s.w)),
                            IF s.z = thickness THEN Zero ELSE thickness, n1)
    /\ UNCHANGED <<Instance, bx>>

\* a walk of f has run maxDepth iterations: the loop over the walks goes on
F_WalkEnd(c) ==
    /\ c \in DOMAIN call
    /\ call[c].op = "f" /\ call[c].pc = "fWalk"
    /\ call[c].depth >= config.maxDepth
    /\ Upd(c, [call[c] EXCEPT !.pc = "fLoop", !.s = @ + 1, !.ev = "exhausted"])
    /\ UNCHANGED <<Instance, bx>>

\* the loop over the walks is over: return f / config.nSamples
F_Return(c) ==
    LET s == call[c] IN
    /\ c \in DOMAIN call
    /\ s.op = "f" /\ s.pc = "fLoop" /\ s.s >= config.nSamples
    /\ Upd(c, [Locals(s) EXCEPT !.pc = "done", !.ev = "return",
                                !.val = SDiv(s.f, Rat(config.nSamples, 1))])
    /\ UNCHANGED <<Instance, bx>>

-----------------------------------------------------------------------------
(* Two calls with the same arguments on one instance, with the draws of the RNG *)

InitDet ==
    /\ config \in {[maxDepth |-> 0, nSamples |-> 1, twoSided |-> TRUE],
                   [maxDepth |-> MaxDepthCfg, nSamples |-> MaxNSamples,
                    twoSided |-> TRUE]}
    /\ top \in TopIfaces
    /\ bottom = {"Diffuse", "Reflection", "Transmission"}
    /\ thickness = One
    /\ g = Zero
    /\ albedo \in {Spectrum(Zero), Tinted(Half)}
    /\ bx = NoBx
    /\ seed \in 0 .. MaxSeed
    /\ argOrder \in {"ltr", "rtl"}
    /\ rngMode = "hashed"
    /\ call = [c \in Calls |-> IdleCall]

\* the steps of the two calls in every interleaving; results are kept
NextDet ==
    \E c \in Calls :
        \/ SampleF_Enter(c)
        \/ SampleF_Step(c)
        \/ SampleF_Exhausted(c)
        \/ PDF_Enter(c)
        \/ PDF_Iter(c)
        \/ PDF_Return(c)
        \/ F_Enter(c)
        \/ F_Sample(c)
        \/ F_Step(c)
        \/ F_WalkEnd(c)
        \/ F_Return(c)

SpecDet == InitDet /\ [][NextDet]_vars

-----------------------------------------------------------------------------
(* A call and the call with its directions negated, on a two-sided instance *)

\* the directions of the first call: both hemispheres, wo.z # 0
SymDirs == {RNeg(One), RNeg(Half), Half, One}

\* the arguments of a call with wo and wi negated
Negated(a) == [a EXCEPT !.wo = RNeg(a.wo), !.wi = RNeg(a.wi)]

\* the arguments of call c: the first call takes any of all, the second one is made
\* when the first has ended, with the first call's arguments negated
Opposite(c, op, all) ==
    IF c = 1 THEN all
    ELSE IF call[1].op = op /\ call[1].pc \in {"done", "aborted"}
    THEN {Negated(Arguments(call[1]))}
    ELSE {}

InitSym ==
    /\ config \in {[maxDepth |-> 0, nSamples |-> 1, twoSided |-> TRUE],
                   [maxDepth |-> MaxDepthCfg, nSamples |-> MaxNSamples,
                    twoSided |-> TRUE]}
    /\ top \in TopIfaces
    /\ bottom = {"Diffuse", "Reflection", "Transmission"}
    /\ thickness = One
    /\ g = Zero
    /\ albedo \in {Spectrum(Zero), Tinted(Half)}
    /\ bx = NoBx
    /\ seed \in 0 .. MaxSeed
    /\ argOrder = "ltr"
    /\ rngMode = "hashed"
    /\ call = [c \in Calls |-> IdleCall]

\* Sample_f(wo, uc, u, mode) and then Sample_f(-wo, uc, u, mode)
SampleF_Opposite(c) ==
    SampleF_Call(c, Opposite(c, "Sample_f",
                             [wo : SymDirs, wi : {IdleCall.wi}, uc : CallDraws,
                              u : CallDraws \X CallDraws, mode : CallModes,
                              sampleFlags : {ReflTransAll}]))

\* PDF(wo, wi, mode) and then PDF(-wo, -wi, mode)
PDF_Opposite(c) ==
    PDF_Call(c, Opposite(c, "PDF",
                         [wo : SymDirs, wi : SymDirs \cup {Zero}, uc : {IdleCall.uc},
                          u : {IdleCall.u}, mode : CallModes,
                          sampleFlags : {ReflTransAll}]))

\* f(wo, wi, mode) and then f(-wo, -wi, mode)
F_Opposite(c) ==
    F_Call(c, Opposite(c, "f",
                       [wo : SymDirs, wi : SymDirs \cup {Zero}, uc : {IdleCall.uc},
                        u : {IdleCall.u}, mode : CallModes,
                        sampleFlags : {IdleCall.sampleFlags}]))

NextSym ==
    \E c \in Calls :
        \/ SampleF_Opposite(c)
        \/ SampleF_Step(c)
        \/ SampleF_Exhausted(c)
        \/ PDF_Opposite(c)
        \/ PDF_Iter(c)
        \/ PDF_Return(c)
        \/ F_Opposite(c)
        \/ F_Sample(c)
        \/ F_Step(c)
        \/ F_WalkEnd(c)
        \/ F_Return(c)

SpecSym == InitSym /\ [][NextSym]_vars

-----------------------------------------------------------------------------
(* One call of f, Sample_f or PDF from its entry to its return *)

\* the depth of the walks whose draws take every outcome
MaxDepthAny == 2

\* short walks under every outcome of every draw, and long ones under the draws of
\* the generator
InitTerm ==
    /\ \/ /\ rngMode = "any"
          /\ config \in {[maxDepth |-> 0, nSamples |-> 1, twoSided |-> TRUE],
                         [maxDepth |-> MaxDepthAny, nSamples |-> 1,
                          twoSided |-> TRUE]}
          /\ seed = 0
       \/ /\ rngMode = "hashed"
          /\ config \in {[maxDepth |-> MaxDepthCfg, nSamples |-> MaxNSamples,
                          twoSided |-> sided] : sided \in BOOLEAN}
          /\ seed \in 0 .. MaxSeed
    /\ top \in TopIfaces
    /\ bottom = {"Diffuse", "Reflection", "Transmission"}
    /\ thickness = One
    /\ g = Zero
    /\ albedo \in {Spectrum(Zero), Tinted(Half)}
    /\ bx = NoBx
    /\ argOrder = "ltr"
    /\ call = [c \in {1} |-> IdleCall]

NextTerm ==
    \E c \in Calls :
        \/ SampleF_Enter(c)
        \/ SampleF_Step(c)
        \/ SampleF_Exhausted(c)
        \/ PDF_Enter(c)
        \/ PDF_Iter(c)
        \/ PDF_Return(c)
        \/ F_Enter(c)
        \/ F_Sample(c)
        \/ F_Step(c)
        \/ F_WalkEnd(c)
        \/ F_Return(c)

SpecTerm == InitTerm /\ [][NextTerm]_vars

-----------------------------------------------------------------------------
(* Walks of f and Sample_f that run to maxDepth under every outcome of every draw *)

\* one walk per call of f, below a smooth dielectric coating
InitRoulette ==
    /\ config = [maxDepth |-> MaxDepthCfg, nSamples |-> 1, twoSided |-> TRUE]
    /\ top = {"Reflection", "Transmission", "Specular"}
    /\ bottom \in {DiffuseReflection, SpecularReflection}
    /\ thickness = One
    /\ g = Zero
    /\ albedo \in {Spectrum(Zero), Tinted(Half)}
    /\ bx = NoBx
    /\ seed = 0
    /\ argOrder = "ltr"
    /\ rngMode = "any"
    /\ call = [c \in {1} |-> IdleCall]

NextRoulette ==
    \E c \in Calls :
        \/ SampleF_Enter(c)
        \/ SampleF_Step(c)
        \/ SampleF_Exhausted(c)
        \/ F_Enter(c)
        \/ F_Sample(c)
        \/ F_Step(c)
        \/ F_WalkEnd(c)
        \/ F_Return(c)

SpecRoulette == InitRoulette /\ [][NextRoulette]_vars

-----------------------------------------------------------------------------
(* Concurrent calls: call 1 runs alone, then its second run meets a third call *)

InitConc ==
    /\ config \in {[maxDepth |-> 0, nSamples |-> 1, twoSided |-> TRUE],
                   [maxDepth |-> MaxDepthCfg, nSamples |-> MaxNSamples,
                    twoSided |-> TRUE]}
    /\ top \in TopIfaces
    /\ bottom = {"Diffuse", "Reflection", "Transmission"}
    /\ thickness = One
    /\ g = Zero
    /\ albedo \in {Spectrum(Zero), Tinted(Half)}
    /\ bx = NoBx
    /\ seed \in 0 .. MaxSeed
    /\ argOrder = "ltr"
    /\ rngMode = "hashed"
    /\ call = [c \in Calls \cup {Other} |-> IdleCall]

\* call 1 has the instance to itself; calls 2 and Other then run in every interleaving
NextConc ==
    \E c \in Calls \cup {Other} :
        \/ SampleF_Enter(c)
        \/ SampleF_Step(c)
        \/ SampleF_Exhausted(c)
        \/ PDF_Enter(c)
        \/ PDF_Iter(c)
        \/ PDF_Return(c)
        \/ F_Enter(c)
        \/ F_Sample(c)
        \/ F_Step(c)
        \/ F_WalkEnd(c)
        \/ F_Return(c)

SpecConc == InitConc /\ [][NextConc]_vars

-----------------------------------------------------------------------------
(* The other operations of LayeredBxDF: Flags, getDiffuseReflectance, Regularize *)

\* a const method that writes a member all the same
ConstMethod_WritesAlbedo == albedo' = Spectrum(Zero) /\ UNCHANGED <<config, top, bottom, thickness, g, seed, argOrder, rngMode>>

\* Flags and getDiffuseReflectance are const methods: they assign to no member
ConstMethod == UNCHANGED Instance

\* the lobes of the whole stack
LayeredBxDF_Flags(topFlags, bottomFlags) ==
    {"Reflection"}
    \cup (IF IsSpecular(topFlags) THEN {"Specular"} ELSE {})
    \cup (IF IsDiffuse(topFlags) \/ IsDiffuse(bottomFlags) \/ SNonZero(albedo)
          THEN {"Diffuse"}
          ELSE IF IsGlossy(topFlags) \/ IsGlossy(bottomFlags) THEN {"Glossy"} ELSE {})
    \cup (IF IsTransmissive(topFlags) /\ IsTransmissive(bottomFlags)
          THEN {"Transmission"} ELSE {})

\* Flags(): CHECK that one interface transmits, then classify
Flags_Call(c) ==
    /\ c \in DOMAIN call /\ call[c].pc = "idle"
    /\ LET s == [IdleCall EXCEPT !.op = "Flags"]
       IN  IF ~(IsTransmissive(top) \/ IsTransmissive(bottom)) THEN Upd(c, Abort(s))
           ELSE Upd(c, Return(s, [NoSample EXCEPT !.flags = LayeredBxDF_Flags(top, bottom)],
                              "flags", NoSample))
    /\ ConstMethod
    /\ UNCHANGED bx

\* the diffuse reflectance of an interface: R of the diffuse variants, 0 of the others
Iface_getDiffuseReflectance(ifl) ==
    IF IsDiffuse(ifl) /\ IsReflective(ifl) THEN Tinted(Half) ELSE Spectrum(Zero)

\* getDiffuseReflectance(): the sum over both interfaces
GetDiffuseReflectance_Call(c) ==
    /\ c \in DOMAIN call /\ call[c].pc = "idle"
    /\ Upd(c, Return([IdleCall EXCEPT !.op = "getDiffuseReflectance"],
                     [NoSample EXCEPT !.f = SAdd(Iface_getDiffuseReflectance(top),
                                                 Iface_getDiffuseReflectance(bottom))],
                     "reflectance", NoSample))
    /\ ConstMethod
    /\ UNCHANGED bx

\* Regularize() of an interface widens an effectively smooth microfacet lobe
Regularized(ifl) ==
    IF IsSpecular(ifl) /\ IsTransmissive(ifl) THEN (ifl \ {"Specular"}) \cup {"Glossy"}
    ELSE ifl

\* Regularize(): both interfaces in place; the caller runs it while no call is under way
Regularize ==
    /\ \A c \in DOMAIN call : call[c].pc = "idle"
    /\ top' = Regularized(top)
    /\ bottom' = Regularized(bottom)
    /\ UNCHANGED <<config, thickness, albedo, g, seed, argOrder, rngMode, call, bx>>

\* one instance, one call at a time of any operation, with the draws of the RNG
InitFrame ==
    /\ config \in {[maxDepth |-> 0, nSamples |-> 1, twoSided |-> FALSE]} \cup
                  {[maxDepth |-> MaxDepthCfg, nSamples |-> n, twoSided |-> TRUE] :
                       n \in 0 .. MaxNSamples}
    /\ top \in TopIfaces
    /\ bottom \in BottomIfaces
    /\ thickness = One
    /\ g = Zero
    /\ albedo \in {Spectrum(Zero), Tinted(Half)}
    /\ bx = NoBx
    /\ seed \in 0 .. MaxSeed
    /\ argOrder = "ltr"
    /\ rngMode = "hashed"
    /\ call = [c \in {1} |-> IdleCall]

NextFrame ==
    \/ Regularize
    \/ \E c \in Calls :
        \/ SampleF_Enter(c)
        \/ SampleF_Step(c)
        \/ SampleF_Exhausted(c)
        \/ PDF_Enter(c)
        \/ PDF_Iter(c)
        \/ PDF_Return(c)
        \/ F_Enter(c)
        \/ F_Sample(c)
        \/ F_Step(c)
        \/ F_WalkEnd(c)
        \/ F_Return(c)
        \/ Flags_Call(c)
        \/ GetDiffuseReflectance_Call(c)
        \/ Finish(c)

SpecFrame == InitFrame /\ [][NextFrame]_vars

-----------------------------------------------------------------------------
(* Vector3f and the geometry helpers of the base variants *)

RECURSIVE ISqrtIter(_, _)
ISqrtIter(n, k) ==
    LET k2 == (k + n \div k) \div 2
    IN  IF k2 >= k THEN k ELSE ISqrtIter(n, k2)

\* the integer part of the square root of n >= 0
ISqrt(n) == IF n = 0 THEN 0 ELSE ISqrtIter(n, n)

\* std::sqrt: exact on the squares of rationals, rounded down to a multiple of 1/d
\* elsewhere; NaN below zero
RSqrt(a) ==
    IF IsNaN(a) \/ a[1] < 0 THEN NaN
    ELSE IF IsInf(a) THEN a
    ELSE LET n == ISqrt(a[1])
             d == ISqrt(a[2])
         IN  IF n * n = a[1] /\ d * d = a[2] THEN Rat(n, d)
             ELSE Rat(ISqrt(a[1] * a[2]), a[2])

\* SafeSqrt(x) = sqrt(max(0, x))
SafeSqrt(a) == RSqrt(RMax(Zero, a))

InvPi == RDiv(One, Pi)

Vec(x, y, z) == <<x, y, z>>

VNeg(w) == <<RNeg(w[1]), RNeg(w[2]), RNeg(w[3])>>

VAdd(a, b) == <<RAdd(a[1], b[1]), RAdd(a[2], b[2]), RAdd(a[3], b[3])>>

VScale(w, s) == <<RMul(w[1], s), RMul(w[2], s), RMul(w[3], s)>>

VDiv(w, s) == <<RDiv(w[1], s), RDiv(w[2], s), RDiv(w[3], s)>>

Dot(a, b) == RAdd(RAdd(RMul(a[1], b[1]), RMul(a[2], b[2])), RMul(a[3], b[3]))

AbsDot(a, b) == RAbs(Dot(a, b))

LengthSquared(w) == Dot(w, w)

Normalize(w) == VDiv(w, RSqrt(LengthSquared(w)))

CosTheta(w) == w[3]

Cos2Theta(w) == Sqr(w[3])

Sin2Theta(w) == RMax(Zero, RSub(One, Cos2Theta(w)))

SinTheta(w) == RSqrt(Sin2Theta(w))

Tan2Theta(w) == RDiv(Sin2Theta(w), Cos2Theta(w))

CosPhi(w) ==
    LET s == SinTheta(w)
    IN  IF s = Zero THEN One ELSE Clamp(RDiv(w[1], s), RNeg(One), One)

SinPhi(w) ==
    LET s == SinTheta(w)
    IN  IF s = Zero THEN Zero ELSE Clamp(RDiv(w[2], s), RNeg(One), One)

CosDPhi(wa, wb) ==
    LET waxy == RAdd(Sqr(wa[1]), Sqr(wa[2]))
        wbxy == RAdd(Sqr(wb[1]), Sqr(wb[2]))
    IN  IF waxy = Zero \/ wbxy = Zero THEN One
        ELSE Clamp(RDiv(RAdd(RMul(wa[1], wb[1]), RMul(wa[2], wb[2])),
                        RSqrt(RMul(waxy, wbxy))), RNeg(One), One)

\* w.z * wp.z > 0
SameHemisphere(w, wp) == SameHemisphereZ(w[3], wp[3])

\* Reflect(wo, n) = -wo + 2 * Dot(wo, n) * n
Reflect(wo, n) == VAdd(VNeg(wo), VScale(n, RMul(Rat(2, 1), Dot(wo, n))))

FaceForward(n, v) == IF RLt(Dot(n, v), Zero) THEN VNeg(n) ELSE n

\* Refract(wi, n, eta, &wt): <<FALSE, _>> on total internal reflection
Refract(wi, n, eta) ==
    LET cosTheta_i == Dot(n, wi)
        sin2Theta_i == RMax(Zero, RSub(One, Sqr(cosTheta_i)))
        sin2Theta_t == RDiv(sin2Theta_i, Sqr(eta))
        cosTheta_t == SafeSqrt(RSub(One, sin2Theta_t))
    IN  IF RLe(One, sin2Theta_t) THEN <<FALSE, Vec(Zero, Zero, Zero)>>
        ELSE <<TRUE, VAdd(VDiv(VNeg(wi), eta),
                          VScale(n, RSub(RDiv(cosTheta_i, eta), cosTheta_t)))>>

\* FrDielectric(cosTheta_i, eta): the unpolarized Fresnel reflectance
\* its steps are operators of their own, each taking what the steps before computed
FrDielectric_Amplitudes(c, et, cosTheta_t) ==
    LET r_parl == RDiv(RSub(RMul(et, c), cosTheta_t), RAdd(RMul(et, c), cosTheta_t))
        r_perp == RDiv(RSub(c, RMul(et, cosTheta_t)), RAdd(c, RMul(et, cosTheta_t)))
    IN  RDiv(RAdd(Sqr(r_parl), Sqr(r_perp)), Rat(2, 1))

\* Snell's law for the transmitted angle; total internal reflection gives 1
FrDielectric_Snell(c, et, sin2Theta_t) ==
    IF RLe(One, sin2Theta_t) THEN One
    ELSE FrDielectric_Amplitudes(c, et, SafeSqrt(RSub(One, sin2Theta_t)))

\* c and et: the cosine and the index after the flip of a direction from below
FrDielectric_Flipped(c, et) ==
    FrDielectric_Snell(c, et, RDiv(RSub(One, Sqr(c)), Sqr(et)))

FrDielectric_Clamped(c0, eta) ==
    FrDielectric_Flipped(IF RLt(c0, Zero) THEN RNeg(c0) ELSE c0,
                         IF RLt(c0, Zero) THEN RDiv(One, eta) ELSE eta)

FrDielectric(cosTheta_i, eta) ==
    FrDielectric_Clamped(Clamp(cosTheta_i, RNeg(One), One), eta)

\* FrConductor(cosTheta_i, eta, k), by Schlick's form with exponent 2: the normal
\* incidence reflectance of (eta, k) at cos = 1, rising to 1 at grazing incidence
FrConductor(cosTheta_i, eta, k) ==
    [i \in Comp |->
        LET c == Clamp(cosTheta_i, RNeg(One), One)
            f0 == RDiv(RAdd(Sqr(RSub(eta[i], One)), Sqr(k[i])),
                       RAdd(Sqr(RAdd(eta[i], One)), Sqr(k[i])))
        IN  RAdd(f0, RMul(RSub(One, f0), Sqr(RSub(One, c))))]

\* FresnelMoment1(eta), by a stand-in: 0 at eta = 1, below 1/2 everywhere
FresnelMoment1(eta) == RDiv(RAbs(RSub(One, eta)), RMul(Rat(2, 1), RAdd(One, eta)))

\* the directions of the model: all in the x-z plane, at 0, +-2t, 90 degrees and
\* their mirror images, with cos t = 4/5, so that every half vector is rational
DirX == Rat(24, 25)

DirZ == Rat(7, 25)

Dirs ==
    {Vec(Zero, Zero, One), Vec(Zero, Zero, RNeg(One)),
     Vec(DirX, Zero, DirZ), Vec(RNeg(DirX), Zero, DirZ),
     Vec(DirX, Zero, RNeg(DirZ)), Vec(RNeg(DirX), Zero, RNeg(DirZ)),
     Vec(One, Zero, Zero), Vec(RNeg(One), Zero, Zero)}

\* SampleCosineHemisphere(u): the centre of the square goes to the pole, its edges
\* u.x = 0 and u.y = 0 to the rim (z = 0), the rest to the two tilted directions
SampleCosineHemisphere(u) ==
    IF u[1] = Zero THEN Vec(RNeg(One), Zero, Zero)
    ELSE IF u[2] = Zero THEN Vec(One, Zero, Zero)
    ELSE IF u[1] = Half /\ u[2] = Half THEN Vec(Zero, Zero, One)
    ELSE IF u[1] = Half THEN Vec(RNeg(DirX), Zero, DirZ)
    ELSE Vec(DirX, Zero, DirZ)

CosineHemispherePDF(cosTheta) == RMul(cosTheta, InvPi)

\* Radians(deg) = (Pi / 180) * deg
Radians(deg) == RMul(RDiv(Pi, Rat(180, 1)), deg)
-----------------------------------------------------------------------------
(* TrowbridgeReitzDistribution: alpha = [x, y] *)

\* EffectivelySmooth(): max(alpha_x, alpha_y) < 1e-3
EffectivelySmooth(alpha) == RLt(RMax(alpha.x, alpha.y), Rat(1, 1000))

\* D(wm), by the stand-in cos^2(theta_m) / (Pi * alpha_x * alpha_y): the value
\* 1 / (Pi * alpha_x * alpha_y) of D at the pole, falling to 0 at grazing normals
TrowbridgeReitz_D(alpha, wm) ==
    IF IsInf(Tan2Theta(wm)) THEN Zero
    ELSE RDiv(Cos2Theta(wm), RMul(Pi, RMul(alpha.x, alpha.y)))

TrowbridgeReitz_Lambda(alpha, w) ==
    LET tan2Theta == Tan2Theta(w)
        alpha2 == RAdd(Sqr(RMul(CosPhi(w), alpha.x)), Sqr(RMul(SinPhi(w), alpha.y)))
    IN  IF IsInf(tan2Theta) THEN Zero
        ELSE RDiv(RSub(RSqrt(RAdd(One, RMul(alpha2, tan2Theta))), One), Rat(2, 1))

TrowbridgeReitz_G1(alpha, w) == RDiv(One, RAdd(One, TrowbridgeReitz_Lambda(alpha, w)))

TrowbridgeReitz_G(alpha, wo, wi) ==
    RDiv(One, RAdd(RAdd(One, TrowbridgeReitz_Lambda(alpha, wo)),
                   TrowbridgeReitz_Lambda(alpha, wi)))

\* PDF(wo, wm): the density of the visible normals
TrowbridgeReitz_PDF(alpha, wo, wm) ==
    RMul(RMul(RDiv(TrowbridgeReitz_G1(alpha, wo), AbsCosTheta(wo[3])),
              TrowbridgeReitz_D(alpha, wm)), AbsDot(wo, wm))

\* Sample_wm(wo, u): a unit normal on wo's side, one of three by u.x
TrowbridgeReitz_Sample_wm(alpha, wo, u) ==
    LET wm == IF u[1] = Half THEN Vec(Zero, Zero, One)
              ELSE IF u[1] = Zero THEN Vec(Rat(-3, 5), Zero, Rat(4, 5))
              ELSE Vec(Rat(3, 5), Zero, Rat(4, 5))
    IN  IF RLt(wo[3], Zero) THEN VNeg(wm) ELSE wm

-----------------------------------------------------------------------------
(* The base variants. An instance is <<variant, p>> with p its members. *)

\* BSDFSample{}: what `return {}` gives in a Sample_f that returns a BSDFSample
EmptyBSDFSample ==
    [present |-> TRUE, f |-> Spectrum(Zero), wi |-> Vec(Zero, Zero, Zero), pdf |-> Zero,
     flags |-> Unset]

\* wi.z *= -1
FlipZ(w) == Vec(w[1], w[2], RNeg(w[3]))

\* the specular reflection of wo: (-wo.x, -wo.y, wo.z)
Mirror(wo) == Vec(RNeg(wo[1]), RNeg(wo[2]), wo[3])

Members(R, T, A, B, eta, alpha, etaS, k) ==
    [R |-> R, T |-> T, A |-> A, B |-> B, eta |-> eta, alpha |-> alpha, etaS |-> etaS,
     k |-> k]

NoAlpha == [x |-> Zero, y |-> Zero]

(* IdealDiffuseBxDF *)

IdealDiffuseBxDF(R) ==
    <<"IdealDiffuseBxDF",
      Members(R, Spectrum(Zero), Zero, Zero, One, NoAlpha, Spectrum(Zero), Spectrum(Zero))>>

\* IdealDiffuseBxDF::f without its hemisphere test
IdealDiffuse_f_AnyHemisphere(p, wo, wi, mode) == SScale(p.R, InvPi)

IdealDiffuse_f(p, wo, wi, mode) ==
    IF ~SameHemisphere(wo, wi) THEN Spectrum(Zero)
    ELSE SScale(p.R, InvPi)

IdealDiffuse_Sample_f(p, wo, uc, u, mode, sampleFlags) ==
    IF ~IsReflective(sampleFlags) THEN NoSample
    ELSE LET s == SampleCosineHemisphere(u)
             wi == IF RLt(wo[3], Zero) THEN FlipZ(s) ELSE s
             pdf == CosineHemispherePDF(AbsCosTheta(wi[3]))
         IN  BSDFSample(SScale(p.R, InvPi), wi, pdf, DiffuseReflection)

IdealDiffuse_PDF(p, wo, wi, mode, sampleFlags) ==
    IF ~IsReflective(sampleFlags) \/ ~SameHemisphere(wo, wi) THEN Zero
    ELSE CosineHemispherePDF(AbsCosTheta(wi[3]))

IdealDiffuse_Flags(p) == IF SNonZero(p.R) THEN DiffuseReflection ELSE Unset

(* DiffuseBxDF *)

DiffuseBxDF(R, T, sigma) ==
    LET sigma2 == Sqr(Radians(sigma))
        A == RSub(One, RDiv(sigma2, RMul(Rat(2, 1), RAdd(sigma2, Rat(33, 100)))))
        B == RDiv(RMul(Rat(45, 100), sigma2), RAdd(sigma2, Rat(9, 100)))
    IN  <<"DiffuseBxDF",
          Members(R, T, A, B, One, NoAlpha, Spectrum(Zero), Spectrum(Zero))>>

Diffuse_f(p, wo, wi, mode) ==
    IF p.B = Zero
    THEN (IF SameHemisphere(wo, wi) THEN SScale(p.R, InvPi) ELSE SScale(p.T, InvPi))
    ELSE IF (SameHemisphere(wo, wi) /\ ~SNonZero(p.R)) \/
            (~SameHemisphere(wo, wi) /\ ~SNonZero(p.T))
    THEN Spectrum(Zero)
    ELSE LET sinTheta_i == SinTheta(wi)
             sinTheta_o == SinTheta(wo)
             maxCos == RMax(Zero, CosDPhi(wi, wo))
             first == RLt(AbsCosTheta(wo[3]), AbsCosTheta(wi[3]))
             sinAlpha == IF first THEN sinTheta_o ELSE sinTheta_i
             tanBeta == IF first THEN RDiv(sinTheta_i, AbsCosTheta(wi[3]))
                        ELSE RDiv(sinTheta_o, AbsCosTheta(wo[3]))
             on == RAdd(p.A, RMul(RMul(RMul(p.B, maxCos), sinAlpha), tanBeta))
         IN  IF SameHemisphere(wo, wi) THEN SScale(SScale(p.R, InvPi), on)
             ELSE SScale(SScale(p.T, InvPi), on)

\* pr and pt of DiffuseBxDF::Sample_f and ::PDF
Diffuse_pr(p, sampleFlags) ==
    IF ~IsReflective(sampleFlags) THEN Zero ELSE MaxComponentValue(p.R)

Diffuse_pt(p, sampleFlags) ==
    IF ~IsTransmissive(sampleFlags) THEN Zero ELSE MaxComponentValue(p.T)

Diffuse_Sample_f(p, wo, uc, u, mode, sampleFlags) ==
    LET pr == Diffuse_pr(p, sampleFlags)
        pt == Diffuse_pt(p, sampleFlags)
        s == SampleCosineHemisphere(u)
        wr == IF RLt(wo[3], Zero) THEN FlipZ(s) ELSE s
        wt == IF RLt(Zero, wo[3]) THEN FlipZ(s) ELSE s
    IN  IF pr = Zero /\ pt = Zero THEN NoSample
        ELSE IF RLt(uc, RDiv(pr, RAdd(pr, pt)))
        THEN BSDFSample(Diffuse_f(p, wo, wr, mode), wr,
                        RDiv(RMul(CosineHemispherePDF(AbsCosTheta(wr[3])), pr), RAdd(pr, pt)),
                        DiffuseReflection)
        ELSE BSDFSample(Diffuse_f(p, wo, wt, mode), wt,
                        RDiv(RMul(CosineHemispherePDF(AbsCosTheta(wt[3])), pt), RAdd(pr, pt)),
                        DiffuseTransmission)

Diffuse_PDF(p, wo, wi, mode, sampleFlags) ==
    LET pr == Diffuse_pr(p, sampleFlags)
        pt == Diffuse_pt(p, sampleFlags)
    IN  IF pr = Zero /\ pt = Zero THEN Zero
        ELSE IF SameHemisphere(wo, wi)
        THEN RMul(RDiv(pr, RAdd(pr, pt)), CosineHemispherePDF(AbsCosTheta(wi[3])))
        ELSE RMul(RDiv(pt, RAdd(pr, pt)), CosineHemispherePDF(AbsCosTheta(wi[3])))

Diffuse_Flags(p) ==
    (IF SNonZero(p.R) THEN DiffuseReflection ELSE Unset) \cup
    (IF SNonZero(p.T) THEN DiffuseTransmission ELSE Unset)

(* SpecularTransmissionBxDF and SpecularReflectionBxDF *)

\* eta == 1 ? 1.001 : eta, of both constructors
NudgedEta(eta) == IF eta = One THEN Rat(1001, 1000) ELSE eta

SpecularTransmissionBxDF(eta, T) ==
    <<"SpecularTransmissionBxDF",
      Members(Spectrum(Zero), T, Zero, Zero, NudgedEta(eta), NoAlpha, Spectrum(Zero),
              Spectrum(Zero))>>

SpecularTransmission_f(p, wo, wi, mode) == Spectrum(Zero)

\* etap without the inversion for a wo below the surface
TransmittedEta_NotInverted(eta, wo) == eta

\* bool entering = CosTheta(wo) > 0; Float etap = entering ? eta : (1 / eta)
TransmittedEta(eta, wo) == IF RLt(Zero, CosTheta(wo)) THEN eta ELSE RDiv(One, eta)

SpecularTransmission_Sample_f(p, wo, uc, u, mode, sampleFlags) ==
    LET etap == TransmittedEta(p.eta, wo)
        rf == Refract(wo, FaceForward(Vec(Zero, Zero, One), wo), etap)
        wi == rf[2]
        ft0 == SDiv(SScale(p.T, RSub(One, FrDielectric(CosTheta(wo), p.eta))),
                    AbsCosTheta(wi[3]))
        ft == IF mode = "Radiance" THEN SDiv(ft0, Sqr(etap)) ELSE ft0
    IN  IF wo[3] = Zero THEN EmptyBSDFSample
        ELSE IF ~IsTransmissive(sampleFlags) THEN EmptyBSDFSample
        ELSE IF ~rf[1] THEN EmptyBSDFSample
        ELSE BSDFSample(ft, wi, One, SpecularTransmission)

\* a PDF that reports the density 1 of the sampled delta direction
SpecularTransmission_PDF_One(p, wo, wi, mode, sampleFlags) == One

SpecularTransmission_PDF(p, wo, wi, mode, sampleFlags) == Zero

SpecularTransmission_Flags(p) == {"Transmission", "Specular"}

SpecularReflectionBxDF(eta, R) ==
    <<"SpecularReflectionBxDF",
      Members(R, Spectrum(Zero), Zero, Zero, NudgedEta(eta), NoAlpha, Spectrum(Zero),
              Spectrum(Zero))>>

SpecularReflection_f(p, wo, wi, mode) == Spectrum(Zero)

SpecularReflection_Sample_f(p, wo, uc, u, mode, sampleFlags) ==
    LET wi == Mirror(wo)
        fr == SDiv(SScale(p.R, FrDielectric(CosTheta(wo), p.eta)), AbsCosTheta(wi[3]))
    IN  IF ~IsReflective(sampleFlags) THEN EmptyBSDFSample
        ELSE BSDFSample(fr, wi, One, SpecularReflection)

SpecularReflection_PDF(p, wo, wi, mode, sampleFlags) == Zero

SpecularReflection_Flags(p) == {"Reflection", "Specular"}

(* ThinDielectricBxDF *)

ThinDielectricBxDF(eta) ==
    <<"ThinDielectricBxDF",
      Members(Spectrum(Zero), Spectrum(Zero), Zero, Zero, eta, NoAlpha, Spectrum(Zero),
              Spectrum(Zero))>>

ThinDielectric_f(p, wo, wi, mode) == Spectrum(Zero)

\* R of the slab, with the light bouncing between its two faces accounted for:
\* R += T * T * R / (1 - R * R), the exact product taken in an order that keeps the
\* intermediate fractions small
ThinDielectric_Bounces(R0, T0) ==
    IF RLt(R0, One)
    THEN RAdd(R0, RMul(RDiv(RMul(T0, T0), RSub(One, RMul(R0, R0))), R0))
    ELSE R0

ThinDielectric_Slab(R0) == ThinDielectric_Bounces(R0, RSub(One, R0))

ThinDielectric_R(p, wo) == ThinDielectric_Slab(FrDielectric(CosTheta(wo), p.eta))

\* the choice between the two lobes, with probabilities pr and pt
ThinDielectric_Choose(wo, uc, R, T, pr, pt) ==
    IF pr = Zero /\ pt = Zero THEN NoSample
    ELSE IF RLt(uc, RDiv(pr, RAdd(pr, pt)))
    THEN BSDFSample(Spectrum(RDiv(R, AbsCosTheta(Mirror(wo)[3]))), Mirror(wo),
                    RDiv(pr, RAdd(pr, pt)), SpecularReflection)
    ELSE BSDFSample(Spectrum(RDiv(T, AbsCosTheta(VNeg(wo)[3]))), VNeg(wo),
                    RDiv(pt, RAdd(pr, pt)), SpecularTransmission)

\* pr and pt: R and T, or 0 for a lobe that sampleFlags does not request
ThinDielectric_Lobes(wo, uc, sampleFlags, R, T) ==
    ThinDielectric_Choose(wo, uc, R, T,
                          IF ~IsReflective(sampleFlags) THEN Zero ELSE R,
                          IF ~IsTransmissive(sampleFlags) THEN Zero ELSE T)

\* T kept at 1, not taken again from the corrected R
ThinDielectric_Slab_T_Stale(wo, uc, sampleFlags, R) ==
    ThinDielectric_Lobes(wo, uc, sampleFlags, R, One)

\* T = 1 - R
ThinDielectric_Slab_T(wo, uc, sampleFlags, R) ==
    ThinDielectric_Lobes(wo, uc, sampleFlags, R, RSub(One, R))

ThinDielectric_Sample_f(p, wo, uc, u, mode, sampleFlags) ==
    ThinDielectric_Slab_T(wo, uc, sampleFlags, ThinDielectric_R(p, wo))

ThinDielectric_PDF(p, wo, wi, mode, sampleFlags) == Zero

ThinDielectric_Flags(p) == {"Reflection", "Transmission", "Specular"}

(* ConductorBxDF *)

ConductorBxDF(alpha, eta, k) ==
    <<"ConductorBxDF",
      Members(Spectrum(Zero), Spectrum(Zero), Zero, Zero, One, alpha, eta, k)>>

Conductor_Flags(p) ==
    IF EffectivelySmooth(p.alpha) THEN SpecularReflection ELSE GlossyReflection

\* the Fresnel factor evaluated at the cosine of wi to the surface normal
FresnelCosine_ToNormal(wi, wh) == AbsCosTheta(wi[3])

\* Float frCosTheta_i = AbsDot(wi, wh)
FresnelCosine(wi, wh) == AbsDot(wi, wh)

\* mfDistrib.D(wh) * mfDistrib.G(wo, wi) * F / (4 * cosTheta_i * cosTheta_o)
TorranceSparrow(p, wo, wi, wh) ==
    LET F == FrConductor(FresnelCosine(wi, wh), p.etaS, p.k)
    IN  SDiv(SScale(F, RMul(TrowbridgeReitz_D(p.alpha, wh),
                            TrowbridgeReitz_G(p.alpha, wo, wi))),
             RMul(RMul(Rat(4, 1), AbsCosTheta(wi[3])), AbsCosTheta(wo[3])))

Conductor_f(p, wo, wi, mode) ==
    LET wh == VAdd(wi, wo)
    IN  IF ~SameHemisphere(wo, wi) THEN Spectrum(Zero)
        ELSE IF EffectivelySmooth(p.alpha) THEN Spectrum(Zero)
        ELSE IF AbsCosTheta(wi[3]) = Zero \/ AbsCosTheta(wo[3]) = Zero THEN Spectrum(Zero)
        ELSE IF wh = Vec(Zero, Zero, Zero) THEN Spectrum(Zero)
        ELSE TorranceSparrow(p, wo, wi, Normalize(wh))

Conductor_Sample_f(p, wo, uc, u, mode, sampleFlags) ==
    LET wm == Mirror(wo)
        wh == TrowbridgeReitz_Sample_wm(p.alpha, wo, u)
        wi == Reflect(wo, wh)
        pdf == RDiv(TrowbridgeReitz_PDF(p.alpha, wo, wh), RMul(Rat(4, 1), Dot(wo, wh)))
    IN  IF ~IsReflective(sampleFlags) THEN NoSample
        ELSE IF EffectivelySmooth(p.alpha)
        THEN BSDFSample(SDiv(FrConductor(AbsCosTheta(wm[3]), p.etaS, p.k),
                             AbsCosTheta(wm[3])), wm, One, SpecularReflection)
        ELSE IF wo[3] = Zero THEN NoSample
        ELSE IF ~SameHemisphere(wo, wi) \/ RLe(Dot(wo, wh), Zero) THEN NoSample
        ELSE IF AbsCosTheta(wi[3]) = Zero \/ AbsCosTheta(wo[3]) = Zero THEN NoSample
        ELSE BSDFSample(TorranceSparrow(p, wo, wi, wh), wi, pdf, GlossyReflection)

Conductor_PDF(p, wo, wi, mode, sampleFlags) ==
    LET wh == VAdd(wo, wi)
    IN  IF ~IsReflective(sampleFlags) THEN Zero
        ELSE IF ~SameHemisphere(wo, wi) THEN Zero
        ELSE IF EffectivelySmooth(p.alpha) THEN Zero
        ELSE IF LengthSquared(wh) = Zero \/ RLe(Dot(wo, wh), Zero) THEN Zero
        ELSE RDiv(TrowbridgeReitz_PDF(p.alpha, wo, Normalize(wh)),
                  RMul(Rat(4, 1), Dot(wo, Normalize(wh))))

(* NormalizedFresnelBxDF *)

NormalizedFresnelBxDF(eta) ==
    <<"NormalizedFresnelBxDF",
      Members(Spectrum(Zero), Spectrum(Zero), Zero, Zero, eta, NoAlpha, Spectrum(Zero),
              Spectrum(Zero))>>

NormalizedFresnel_f(p, wo, wi, mode) ==
    LET c == RSub(One, RMul(Rat(2, 1), FresnelMoment1(RDiv(One, p.eta))))
        f == Spectrum(RDiv(RSub(One, FrDielectric(CosTheta(wi), p.eta)), RMul(c, Pi)))
    IN  IF ~SameHemisphere(wo, wi) THEN Spectrum(Zero)
        ELSE IF mode = "Radiance" THEN SScale(f, Sqr(p.eta))
        ELSE f

NormalizedFresnel_PDF(p, wo, wi, mode, sampleFlags) ==
    IF ~IsReflective(sampleFlags) THEN Zero
    ELSE IF SameHemisphere(wo, wi) THEN RMul(AbsCosTheta(wi[3]), InvPi)
    ELSE Zero

NormalizedFresnel_Sample_f(p, wo, uc, u, mode, sampleFlags) ==
    LET s == SampleCosineHemisphere(u)
        wi == IF RLt(wo[3], Zero) THEN FlipZ(s) ELSE s
    IN  IF ~IsReflective(sampleFlags) THEN EmptyBSDFSample
        ELSE BSDFSample(NormalizedFresnel_f(p, wo, wi, mode), wi,
                        NormalizedFresnel_PDF(p, wo, wi, mode, sampleFlags),
                        DiffuseReflection)

NormalizedFresnel_Flags(p) == {"Reflection", "Diffuse"}

-----------------------------------------------------------------------------
(* BxDFHandle: the dispatch on the variant *)

BxDFHandle_f(b, wo, wi, mode) ==
    CASE b[1] = "IdealDiffuseBxDF" -> IdealDiffuse_f(b[2], wo, wi, mode)
      [] b[1] = "DiffuseBxDF" -> Diffuse_f(b[2], wo, wi, mode)
      [] b[1] = "SpecularTransmissionBxDF" -> SpecularTransmission_f(b[2], wo, wi, mode)
      [] b[1] = "SpecularReflectionBxDF" -> SpecularReflection_f(b[2], wo, wi, mode)
      [] b[1] = "ThinDielectricBxDF" -> ThinDielectric_f(b[2], wo, wi, mode)
      [] b[1] = "ConductorBxDF" -> Conductor_f(b[2], wo, wi, mode)
      [] b[1] = "NormalizedFresnelBxDF" -> NormalizedFresnel_f(b[2], wo, wi, mode)

BxDFHandle_Sample_f(b, wo, uc, u, mode, sf) ==
    CASE b[1] = "IdealDiffuseBxDF" -> IdealDiffuse_Sample_f(b[2], wo, uc, u, mode, sf)
      [] b[1] = "DiffuseBxDF" -> Diffuse_Sample_f(b[2], wo, uc, u, mode, sf)
      [] b[1] = "SpecularTransmissionBxDF" ->
             SpecularTransmission_Sample_f(b[2], wo, uc, u, mode, sf)
      [] b[1] = "SpecularReflectionBxDF" ->
             SpecularReflection_Sample_f(b[2], wo, uc, u, mode, sf)
      [] b[1] = "ThinDielectricBxDF" -> ThinDielectric_Sample_f(b[2], wo, uc, u, mode, sf)
      [] b[1] = "ConductorBxDF" -> Conductor_Sample_f(b[2], wo, uc, u, mode, sf)
      [] b[1] = "NormalizedFresnelBxDF" ->
             NormalizedFresnel_Sample_f(b[2], wo, uc, u, mode, sf)

BxDFHandle_PDF(b, wo, wi, mode, sf) ==
    CASE b[1] = "IdealDiffuseBxDF" -> IdealDiffuse_PDF(b[2], wo, wi, mode, sf)
      [] b[1] = "DiffuseBxDF" -> Diffuse_PDF(b[2], wo, wi, mode, sf)
      [] b[1] = "SpecularTransmissionBxDF" ->
             SpecularTransmission_PDF(b[2], wo, wi, mode, sf)
      [] b[1] = "SpecularReflectionBxDF" -> SpecularReflection_PDF(b[2], wo, wi, mode, sf)
      [] b[1] = "ThinDielectricBxDF" -> ThinDielectric_PDF(b[2], wo, wi, mode, sf)
      [] b[1] = "ConductorBxDF" -> Conductor_PDF(b[2], wo, wi, mode, sf)
      [] b[1] = "NormalizedFresnelBxDF" -> NormalizedFresnel_PDF(b[2], wo, wi, mode, sf)

BxDFHandle_Flags(b) ==
    CASE b[1] = "IdealDiffuseBxDF" -> IdealDiffuse_Flags(b[2])
      [] b[1] = "DiffuseBxDF" -> Diffuse_Flags(b[2])
      [] b[1] = "SpecularTransmissionBxDF" -> SpecularTransmission_Flags(b[2])
      [] b[1] = "SpecularReflectionBxDF" -> SpecularReflection_Flags(b[2])
      [] b[1] = "ThinDielectricBxDF" -> ThinDielectric_Flags(b[2])
      [] b[1] = "ConductorBxDF" -> Conductor_Flags(b[2])
      [] b[1] = "NormalizedFresnelBxDF" -> NormalizedFresnel_Flags(b[2])

-----------------------------------------------------------------------------
(* The specification of the calls on a base variant *)

\* reflectances and transmittances of the instances
Colours == {Spectrum(Zero), Tinted(Half)}

\* relative indices of refraction: into the denser and into the thinner medium
Etas == {Rat(8, 5), Rat(5, 8)}

\* Oren-Nayar sigma, in degrees: Lambertian, and one radian
Sigmas == {Zero, RDiv(Rat(180, 1), Pi)}

\* microfacet roughness: perfectly smooth, and rough
Alphas == {[x |-> Zero, y |-> Zero], [x |-> Rat(7, 32), y |-> Rat(7, 32)]}

BxInstances ==
    {IdealDiffuseBxDF(R) : R \in Colours \cup {Spectrum(Half)}} \cup
    {DiffuseBxDF(R, T, s) : R \in Colours, T \in Colours, s \in Sigmas} \cup
    {SpecularTransmissionBxDF(e, T) : e \in Etas, T \in Colours} \cup
    {SpecularReflectionBxDF(e, R) : e \in Etas, R \in Colours} \cup
    {ThinDielectricBxDF(e) : e \in Etas} \cup
    {ConductorBxDF(a, Spectrum(Rat(1, 5)), Tinted(Rat(3, 1))) : a \in Alphas} \cup
    {NormalizedFresnelBxDF(e) : e \in Etas}

Points2f == {<<a, b>> : a \in RDraws, b \in RDraws}

\* a finished evaluation: the instance, the arguments and what the method returned
Evaluation(b, op, wo, wi, uc, u, mode, sf, val, res, pdf) ==
    [variant |-> b[1], p |-> b[2], op |-> op, wo |-> wo, wi |-> wi, uc |-> uc, u |-> u,
     mode |-> mode, sampleFlags |-> sf, val |-> val, res |-> res, pdf |-> pdf,
     flags |-> BxDFHandle_Flags(b)]

NoVec == Vec(Zero, Zero, Zero)

Handle_f ==
    /\ bx = NoBx
    /\ \E b \in BxInstances, wo \in Dirs, wi \in Dirs, mode \in TransportModes :
           bx' = Evaluation(b, "f", wo, wi, Zero, <<Zero, Zero>>, mode, ReflTransAll,
                            BxDFHandle_f(b, wo, wi, mode), NoSample, Zero)
    /\ UNCHANGED <<Instance, call>>

Handle_Sample_f ==
    /\ bx = NoBx
    /\ \E b \in BxInstances, wo \in Dirs, uc \in RDraws, u \in Points2f,
          mode \in TransportModes, sf \in ReflTransFlags :
           bx' = Evaluation(b, "Sample_f", wo, NoVec, uc, u, mode, sf, Spectrum(Zero),
                            BxDFHandle_Sample_f(b, wo, uc, u, mode, sf), Zero)
    /\ UNCHANGED <<Instance, call>>

Handle_PDF ==
    /\ bx = NoBx
    /\ \E b \in BxInstances, wo \in Dirs, wi \in Dirs, mode \in TransportModes,
          sf \in ReflTransFlags :
           bx' = Evaluation(b, "PDF", wo, wi, Zero, <<Zero, Zero>>, mode, sf,
                            Spectrum(Zero), NoSample,
                            BxDFHandle_PDF(b, wo, wi, mode, sf))
    /\ UNCHANGED <<Instance, call>>

\* the caller takes the result
Handle_Return ==
    /\ bx # NoBx
    /\ bx' = NoBx
    /\ UNCHANGED <<Instance, call>>

InitBxDF ==
    /\ config = [maxDepth |-> MaxDepthCfg, nSamples |-> 1, twoSided |-> TRUE]
    /\ top = {"Reflection", "Transmission", "Specular"}
    /\ bottom = DiffuseReflection
    /\ thickness = One
    /\ g = Zero
    /\ albedo = Spectrum(Zero)
    /\ seed = 0
    /\ argOrder = "ltr"
    /\ rngMode = "any"
    /\ call = << >>
    /\ bx = NoBx

NextBxDF == Handle_f \/ Handle_Sample_f \/ Handle_PDF \/ Handle_Return

SpecBxDF == InitBxDF /\ [][NextBxDF]_vars

-----------------------------------------------------------------------------
(* TopOrBottomBxDF: the interface selector of the layered walks *)

\* nullptr
Null == <<"nullptr">>

\* the interfaces a selector is given: TopBxDF and BottomBxDF instances
SelTops == {ThinDielectricBxDF(Rat(8, 5)), DiffuseBxDF(Tinted(Half), Tinted(Half), Zero)}

SelBottoms ==
    {IdealDiffuseBxDF(Spectrum(Half))} \cup
    {ConductorBxDF(a, Spectrum(Rat(1, 5)), Tinted(Rat(3, 1))) : a \in Alphas}

\* TopOrBottomBxDF() = default: both members keep their initialisers
TopOrBottomBxDF == [top |-> Null, bottom |-> Null]

\* operator=(const TopBxDF *t)
Sel_AssignedTop(sel, t) == [top |-> t, bottom |-> Null]

\* operator=(const BottomBxDF *b) that leaves top as it was
Sel_AssignedBottom_KeepsTop(sel, b) == [sel EXCEPT !.bottom = b]

\* operator=(const BottomBxDF *b)
Sel_AssignedBottom(sel, b) == [bottom |-> b, top |-> Null]

\* what a call through a null pointer may do: end the process, or go on with a value
\* read from nowhere
NullDeref == {[crashed |-> TRUE, garbage |-> FALSE], [crashed |-> FALSE, garbage |-> TRUE]}

Sound == [crashed |-> FALSE, garbage |-> FALSE]

\* top ? top->m(...) : bottom->m(...): the pointer the call goes through
Sel_Target(sel) == IF sel.top # Null THEN sel.top ELSE sel.bottom

\* the state of a selector, its last call and what the call returned
Selection(sel, assigned, op, wo, wi, uc, u, mode, sf, val, res, pdf, flags, how) ==
    [variant |-> "TopOrBottomBxDF", sel |-> sel, assigned |-> assigned, op |-> op,
     wo |-> wo, wi |-> wi, uc |-> uc, u |-> u, mode |-> mode, sampleFlags |-> sf,
     val |-> val, res |-> res, pdf |-> pdf, flags |-> flags, how |-> how]

\* a selector that has not been called since its last assignment
Uncalled(sel, assigned) ==
    Selection(sel, assigned, "none", NoVec, NoVec, Zero, <<Zero, Zero>>, "Radiance",
              ReflTransAll, Spectrum(Zero), NoSample, Zero, Unset, Sound)

Sel_AssignTop ==
    /\ \E t \in SelTops : bx' = Uncalled(Sel_AssignedTop(bx.sel, t), TRUE)
    /\ UNCHANGED <<Instance, call>>

Sel_AssignBottom ==
    /\ \E b \in SelBottoms : bx' = Uncalled(Sel_AssignedBottom(bx.sel, b), TRUE)
    /\ UNCHANGED <<Instance, call>>

\* the outcomes of a call: one when the pointer it goes through is set
Sel_Outcomes(sel) == IF Sel_Target(sel) = Null THEN NullDeref ELSE {Sound}

\* f(wo, wi, mode)
Sel_f ==
    /\ bx.op = "none"
    /\ \E wo \in Dirs, wi \in Dirs, mode \in TransportModes, how \in Sel_Outcomes(bx.sel) :
         bx' = Selection(bx.sel, bx.assigned, "f", wo, wi, Zero, <<Zero, Zero>>, mode,
                         ReflTransAll,
                         IF how = Sound THEN BxDFHandle_f(Sel_Target(bx.sel), wo, wi, mode)
                         ELSE Spectrum(Zero),
                         NoSample, Zero, Unset, how)
    /\ UNCHANGED <<Instance, call>>

\* Sample_f(wo, uc, u, mode, sampleFlags)
Sel_Sample_f ==
    /\ bx.op = "none"
    /\ \E wo \in Dirs, uc \in RDraws, u \in Points2f, mode \in TransportModes,
          sf \in ReflTransFlags, how \in Sel_Outcomes(bx.sel) :
         bx' = Selection(bx.sel, bx.assigned, "Sample_f", wo, NoVec, uc, u, mode, sf,
                         Spectrum(Zero),
                         IF how = Sound
                         THEN BxDFHandle_Sample_f(Sel_Target(bx.sel), wo, uc, u, mode, sf)
                         ELSE NoSample,
                         Zero, Unset, how)
    /\ UNCHANGED <<Instance, call>>

\* PDF(wo, wi, mode, sampleFlags)
Sel_PDF ==
    /\ bx.op = "none"
    /\ \E wo \in Dirs, wi \in Dirs, mode \in TransportModes, sf \in ReflTransFlags,
          how \in Sel_Outcomes(bx.sel) :
         bx' = Selection(bx.sel, bx.assigned, "PDF", wo, wi, Zero, <<Zero, Zero>>, mode,
                         sf, Spectrum(Zero), NoSample,
                         IF how = Sound
                         THEN BxDFHandle_PDF(Sel_Target(bx.sel), wo, wi, mode, sf)
                         ELSE Zero,
                         Unset, how)
    /\ UNCHANGED <<Instance, call>>

\* Flags()
Sel_Flags ==
    /\ bx.op = "none"
    /\ \E how \in Sel_Outcomes(bx.sel) :
         bx' = Selection(bx.sel, bx.assigned, "Flags", NoVec, NoVec, Zero, <<Zero, Zero>>,
                         "Radiance", ReflTransAll, Spectrum(Zero), NoSample, Zero,
                         IF how = Sound THEN BxDFHandle_Flags(Sel_Target(bx.sel))
                         ELSE Unset,
                         how)
    /\ UNCHANGED <<Instance, call>>

\* IsNonSpecular(): the flags of the interface the call goes through, masked with
\* Diffuse | Glossy and read as a bool
Sel_IsNonSpecular ==
    /\ bx.op = "none"
    /\ \E how \in Sel_Outcomes(bx.sel) :
         bx' = Selection(bx.sel, bx.assigned, "IsNonSpecular", NoVec, NoVec, Zero,
                         <<Zero, Zero>>, "Radiance", ReflTransAll, Spectrum(Zero),
                         NoSample, Zero,
                         IF how = Sound
                         THEN BxDFHandle_Flags(Sel_Target(bx.sel)) \cap {"Diffuse", "Glossy"}
                         ELSE Unset,
                         how)
    /\ UNCHANGED <<Instance, call>>

\* getDiffuseReflectance() of a variant: R of the two diffuse ones, 0 of the others
BxDFHandle_getDiffuseReflectance(b) ==
    IF b[1] \in {"IdealDiffuseBxDF", "DiffuseBxDF"} THEN b[2].R ELSE Spectrum(Zero)

\* the outcomes of a call that goes through both pointers
Sel_OutcomesOfBoth(sel) ==
    IF sel.top = Null \/ sel.bottom = Null THEN NullDeref ELSE {Sound}

\* getDiffuseReflectance(): top->getDiffuseReflectance() + bottom->...
Sel_getDiffuseReflectance ==
    /\ bx.op = "none"
    /\ \E how \in Sel_OutcomesOfBoth(bx.sel) :
         bx' = Selection(bx.sel, bx.assigned, "getDiffuseReflectance", NoVec, NoVec,
                         Zero, <<Zero, Zero>>, "Radiance", ReflTransAll,
                         IF how = Sound
                         THEN SAdd(BxDFHandle_getDiffuseReflectance(bx.sel.top),
                                   BxDFHandle_getDiffuseReflectance(bx.sel.bottom))
                         ELSE Spectrum(Zero),
                         NoSample, Zero, Unset, how)
    /\ UNCHANGED <<Instance, call>>

\* the caller takes the result
Sel_Return ==
    /\ bx.op # "none"
    /\ bx' = Uncalled(bx.sel, bx.assigned)
    /\ UNCHANGED <<Instance, call>>

\* a selector as the walks declare it, before its first assignment
InitSel ==
    /\ config = [maxDepth |-> MaxDepthCfg, nSamples |-> 1, twoSided |-> TRUE]
    /\ top = {"Reflection", "Transmission", "Specular"}
    /\ bottom = DiffuseReflection
    /\ thickness = One
    /\ g = Zero
    /\ albedo = Spectrum(Zero)
    /\ seed = 0
    /\ argOrder = "ltr"
    /\ rngMode = "any"
    /\ call = << >>
    /\ bx = Uncalled(TopOrBottomBxDF, FALSE)

NextSel ==
    \/ Sel_AssignTop
    \/ Sel_AssignBottom
    \/ Sel_f
    \/ Sel_Sample_f
    \/ Sel_PDF
    \/ Sel_Flags
    \/ Sel_IsNonSpecular
    \/ Sel_getDiffuseReflectance
    \/ Sel_Return

SpecSel == InitSel /\ [][NextSel]_vars

-----------------------------------------------------------------------------
(* Claims *)

\* a Sample_f call that has returned
SampleFDone(s) == s.op = "Sample_f" /\ s.pc = "done"

\* C1: a sample LayeredBxDF::Sample_f returns, the entrance reflection or a walk exit,
\* never has pdf 0
C1_PdfNonZero ==
    \A c \in DOMAIN call :
        (SampleFDone(call[c]) /\ call[c].res.present) => call[c].res.pdf # Zero

\* a walk that survived Russian roulette has left the layers and returned its sample
C1_Witness ==
    \E c \in DOMAIN call :
        /\ SampleFDone(call[c]) /\ call[c].res.present
        /\ call[c].ev = "exit" /\ call[c].rr /\ call[c].depth > 3

\* C4 as stated: every returned sample is GlossyReflection on wo's hemisphere and
\* GlossyTransmission otherwise, and nothing else
C4_AlwaysGlossy ==
    \A c \in DOMAIN call :
        (SampleFDone(call[c]) /\ call[c].res.present) =>
            call[c].res.flags = (IF SameHemisphereZ(call[c].wo, call[c].res.wi)
                                 THEN GlossyReflection ELSE GlossyTransmission)

\* C4 amended: a walk exit is GlossyReflection on wo's hemisphere and GlossyTransmission
\* otherwise; the entrance reflection keeps the flags the entrance interface gave it
C4_ExitGlossy ==
    \A c \in DOMAIN call :
        LET s == call[c] IN
        (SampleFDone(s) /\ s.res.present) =>
            /\ s.ev = "exit" =>
                  s.res.flags = (IF SameHemisphereZ(s.wo, s.res.wi)
                                 THEN GlossyReflection ELSE GlossyTransmission)
            /\ s.ev = "entryReflection" =>
                  /\ s.res.flags = s.bs.flags
                  /\ s.res.flags =
                       ((IF s.enteredTop THEN top ELSE bottom) \ ReflTransAll)
                           \cup {"Reflection"}
            /\ s.ev \in {"exit", "entryReflection"}

\* a flipped walk has left through the side it entered, and one through the other side
C4_Witness ==
    \E c \in DOMAIN call :
        /\ SampleFDone(call[c]) /\ call[c].res.present /\ call[c].ev = "exit"
        /\ call[c].flipWi /\ call[c].res.flags = GlossyReflection

\* C5: Sample_f returns absent when the walk runs maxDepth iterations, and when a step
\* degenerates; a present walk result is returned only where the interface sample read
\* is transmissive and sound
C5_AbsentUnlessExit ==
    \A c \in DOMAIN call :
        LET s == call[c] IN
        SampleFDone(s) =>
            /\ s.depth >= config.maxDepth => (~s.res.present \/ s.ev = "entryReflection")
            /\ (s.ev \in {"exhausted", "roulette", "wz0", "noFlight", "phaseBad",
                          "ifaceBad", "entryBad"}) => ~s.res.present
            /\ (~s.bs.present \/ ~SNonZero(s.bs.f) \/ s.bs.pdf = Zero \/ s.bs.wi = Zero)
                  => ~s.res.present
            /\ (s.ev = "phaseBad") =>
                  (~s.ps.present \/ s.ps.p = Zero \/ s.ps.pdf = Zero \/ s.ps.wi = Zero)
            /\ (s.res.present /\ s.ev # "entryReflection") =>
                  /\ s.ev = "exit"
                  /\ IsTransmissive(s.bs.flags)
                  /\ s.depth < config.maxDepth

\* the walk ran maxDepth > 0 iterations without leaving
C5_Witness ==
    \E c \in DOMAIN call :
        /\ SampleFDone(call[c]) /\ call[c].ev = "exhausted"
        /\ call[c].depth = config.maxDepth /\ config.maxDepth > 0
        /\ ~call[c].res.present

\* a PDF call that has returned
PDFDone(s) == s.op = "PDF" /\ s.pc = "done"

\* 0.9 * (pdfSum / nSamples) + 0.1 * 1 / (4 * pi), strictly positive and finite
C3_Mixture(s) ==
    /\ REq(s.val, RAdd(RMul(Rat(9, 10), RDiv(s.pdfSum, Rat(config.nSamples, 1))),
                       RMul(Rat(1, 10), RDiv(One, RMul(Rat(4, 1), Pi)))))
    /\ RLt(Zero, s.val)
    /\ IsFinite(s.val)

\* C3 as stated: for every layer configuration PDF returns the mixture, positive and finite
C3_PositiveFinite ==
    \A c \in DOMAIN call : PDFDone(call[c]) => C3_Mixture(call[c])

\* C3 amended: for every layer configuration with nSamples >= 1 PDF returns the
\* mixture, strictly positive and finite, whatever the interface samples return
C3_PositiveFiniteFromOneSample ==
    \A c \in DOMAIN call :
        (PDFDone(call[c]) /\ config.nSamples >= 1) => C3_Mixture(call[c])

\* PDF has returned after two or more estimates, some of which added to pdfSum
C3_Witness ==
    \E c \in DOMAIN call :
        /\ PDFDone(call[c]) /\ config.nSamples >= 2
        /\ RLt(Zero, call[c].pdfSum)
        /\ RLt(RDiv(One, RMul(Rat(4, 1), Pi)), call[c].val)

\* a call of the layered engine has ended: it returned or the process aborted
Ended(s) == s.op # "none" /\ s.pc \in {"done", "aborted"}

\* what a caller observes of an ended call: whether it returned, the sample that
\* Sample_f returned and the value that f or PDF returned
Output(s) == <<s.pc, s.res, s.val>>

\* C2: two runs of LayeredBxDF::Sample_f with identical (wo, uc, u), mode, instance
\* and seed have identical outputs (presence, value, direction, pdf, flags), and two
\* runs of f or of PDF with identical (wo, wi), mode, instance and seed return
\* identical values, however the steps of the two runs interleave
C2_Deterministic ==
    \A c1 \in DOMAIN call, c2 \in DOMAIN call :
        (Ended(call[c1]) /\ Ended(call[c2])
            /\ call[c1].op = call[c2].op
            /\ Arguments(call[c1]) = Arguments(call[c2])) =>
                Output(call[c1]) = Output(call[c2])

\* two runs of Sample_f that both walked the layers with draws of their generators
\* and returned a present sample; two runs of f that both drew from their generators
C2_Witness ==
    /\ DOMAIN call = Calls
    /\ \A c \in Calls : SampleFDone(call[c]) /\ call[c].ev = "exit"
                         /\ call[c].depth >= 1 /\ call[c].res.present
    /\ seed = MaxSeed


\* a finished call of method op on a base variant
BxDone(op) == bx # NoBx /\ bx.op = op

\* the instance of the finished call
BxInst == <<bx.variant, bx.p>>

\* no result: an empty optional, or the empty BSDFSample
Absent(r) == ~r.present \/ r = EmptyBSDFSample

\* no usable contribution: no result, or one of density 0
NoContribution(r) == Absent(r) \/ r.pdf = Zero

\* C6: Sample_f returns an absent result when the reflection/transmission bits of
\* requestedLobes have no lobe in common with the variant's Flags(), an empty Flags()
\* included
C6_AbsentWithoutCommonLobe ==
    (BxDone("Sample_f") /\ bx.sampleFlags \cap bx.flags = {}) => NoContribution(bx.res)

\* C7: PDF is exactly 0 for SpecularTransmissionBxDF, SpecularReflectionBxDF,
\* ThinDielectricBxDF and an effectively smooth ConductorBxDF, whatever the arguments
C7_DeltaPdfZero ==
    (/\ BxDone("PDF")
     /\ \/ bx.variant \in {"SpecularTransmissionBxDF", "SpecularReflectionBxDF",
                           "ThinDielectricBxDF"}
        \/ bx.variant = "ConductorBxDF" /\ EffectivelySmooth(bx.p.alpha))
    => bx.pdf = Zero

\* PDF of a smooth conductor was asked for a reflection pair with reflection requested
C7_Witness ==
    /\ BxDone("PDF") /\ bx.variant = "ConductorBxDF" /\ EffectivelySmooth(bx.p.alpha)
    /\ SameHemisphere(bx.wo, bx.wi) /\ IsReflective(bx.sampleFlags)
    /\ bx.wi = Mirror(bx.wo)

\* C8: f is the zero spectrum for a pure-reflection variant when wo and wi are not in
\* one hemisphere, and for DiffuseBxDF when they are with R zero or are not with T zero
C8_ZeroOffLobe ==
    BxDone("f") =>
        /\ (/\ bx.variant \in {"IdealDiffuseBxDF", "ConductorBxDF", "NormalizedFresnelBxDF"}
            /\ ~SameHemisphere(bx.wo, bx.wi)) => bx.val = Spectrum(Zero)
        /\ (/\ bx.variant = "DiffuseBxDF"
            /\ \/ SameHemisphere(bx.wo, bx.wi) /\ ~SNonZero(bx.p.R)
               \/ ~SameHemisphere(bx.wo, bx.wi) /\ ~SNonZero(bx.p.T)) => bx.val = Spectrum(Zero)

\* f of a reflecting IdealDiffuseBxDF was asked for directions on opposite sides
C8_Witness ==
    /\ BxDone("f") /\ bx.variant = "IdealDiffuseBxDF" /\ SNonZero(bx.p.R)
    /\ RLt(RMul(bx.wo[3], bx.wi[3]), Zero)
    /\ bx.val = Spectrum(Zero)

TotalInternalReflection(eta, wo) ==
    LET etap == IF RLt(Zero, wo[3]) THEN eta ELSE RDiv(One, eta)
    IN  RLe(One, RDiv(Sin2Theta(wo), Sqr(etap)))

\* what C10 says of a present result: pdf 1 and the flag SpecularTransmission
C10_PresentShape ==
    ~Absent(bx.res) => bx.res.pdf = One /\ bx.res.flags = SpecularTransmission

\* SpecularTransmissionBxDF::Sample_f has returned, transmission having been requested
C10_Case ==
    /\ BxDone("Sample_f") /\ bx.variant = "SpecularTransmissionBxDF"
    /\ IsTransmissive(bx.sampleFlags)

\* C10 as stated: with transmission requested the result is absent exactly when total
\* internal reflection occurs, else present with pdf 1 and SpecularTransmission
C10_AbsentIffTIR ==
    C10_Case =>
        /\ Absent(bx.res) <=> TotalInternalReflection(bx.p.eta, bx.wo)
        /\ C10_PresentShape

\* C10 amended: with transmission requested the result is absent exactly when wo is
\* grazing (wo.z == 0) or total internal reflection occurs, else present with pdf 1
\* and SpecularTransmission
C10_AbsentIffGrazingOrTIR ==
    C10_Case =>
        /\ Absent(bx.res) <=>
               (bx.wo[3] = Zero \/ TotalInternalReflection(bx.p.eta, bx.wo))
        /\ C10_PresentShape

\* a non-grazing wo beyond the critical angle got the absent result
C10_Witness ==
    /\ C10_Case /\ bx.wo[3] # Zero
    /\ TotalInternalReflection(bx.p.eta, bx.wo) /\ Absent(bx.res)

\* ThinDielectricBxDF::Sample_f has returned, both lobes having been requested, for a
\* wo off the horizon
C11_Case ==
    /\ BxDone("Sample_f") /\ bx.variant = "ThinDielectricBxDF"
    /\ bx.sampleFlags = ReflTransAll /\ bx.wo[3] # Zero

\* C11: the corrected reflectance R and transmittance T of ThinDielectricBxDF::Sample_f
\* satisfy R + T = 1, 0 <= R <= 1 and 0 <= T <= 1: R is in [0, 1], and the sample
\* carries R (reflection) or T = 1 - R (transmission) both as its density pr / (pr + pt)
\* or pt / (pr + pt) and as its value times the cosine
C11_UnitSum ==
    C11_Case =>
        LET R == ThinDielectric_R(bx.p, bx.wo)
            share == IF IsReflective(bx.res.flags) THEN R ELSE RSub(One, R)
        IN  /\ bx.res.present
            /\ RLe(Zero, R) /\ RLe(R, One)
            /\ RLe(Zero, share) /\ RLe(share, One)
            /\ bx.res.pdf = share
            /\ bx.res.f = Spectrum(RDiv(share, RAbs(bx.res.wi[3])))

\* the series was summed (the Fresnel reflectance is below 1) and the transmitted lobe
\* was chosen with a density strictly between 0 and 1
C11_Witness ==
    /\ C11_Case /\ IsTransmissive(bx.res.flags)
    /\ RLt(Zero, bx.res.pdf) /\ RLt(bx.res.pdf, One)
    /\ RLt(FrDielectric(CosTheta(bx.wo), bx.p.eta), ThinDielectric_R(bx.p, bx.wo))

-----------------------------------------------------------------------------
(* C12 *)

\* a call that returned absent before its walk had run its full length
C12_EndedEarly(s) ==
    /\ s.pc = "done" /\ s.op \in {"Sample_f", "f", "PDF"}
    /\ s.ev \notin {"exhausted", "flags", "reflectance"}
    /\ s.depth < config.maxDepth

\* C12: every step of f, Sample_f, PDF, Flags and getDiffuseReflectance leaves the
\* members top, bottom, thickness, g, albedo and config as they were, whatever the
\* step returns; a step that changes a member is a step of Regularize
C12_OnlyRegularizeWrites ==
    [][Regularize \/ UNCHANGED LayeredMembers]_vars

\* a Sample_f call whose walk ended early, absent, after at least one iteration
C12_Witness ==
    /\ C12_EndedEarly(call[1]) /\ call[1].op = "Sample_f"
    /\ ~call[1].res.present /\ call[1].depth > 0

-----------------------------------------------------------------------------
(* C13 *)

\* a step of one call leaves the locals of every other call as they were
C13_Isolated ==
    \A c \in DOMAIN call :
        call'[c] # call[c] => \A d \in DOMAIN call \ {c} : call'[d] = call[d]

\* C13: a call of f, Sample_f or PDF that runs while another call runs on the same
\* instance returns what the same call returned when it ran alone, in every
\* interleaving of their steps, and no step of a call changes the walk state (rng, beta
\* or f, pdf, w, z, depth, the interface selectors) of another call
C13_AsAlone ==
    /\ [](Ended(call[2]) => Output(call[2]) = Output(call[1]))
    /\ [][C13_Isolated]_vars

\* the second run has returned a sample from its walk while the third call, of another
\* method, is inside a walk of its own
C13_Witness ==
    /\ Ended(call[1]) /\ Ended(call[2])
    /\ call[2].op = "Sample_f" /\ call[2].depth > 0
    /\ call[Other].op = "f" /\ call[Other].pc \notin {"idle", "done", "aborted"}
    /\ call[Other].depth > 0

-----------------------------------------------------------------------------
(* C14 *)

\* the iterations a call may begin
C14_Bound(s) ==
    IF s.op = "f" THEN config.nSamples * config.maxDepth
    ELSE IF s.op = "Sample_f" THEN config.maxDepth
    ELSE config.nSamples

\* the iterations a call has begun
C14_Iterations(s) == IF s.op = "PDF" THEN s.s ELSE s.steps

\* the rank of an ended call
C14_RankEnded == 2 + (config.nSamples + 1) * (config.maxDepth + 2)

\* how far a call has come: its place in the loops, counted from its entry
C14_Rank(s) ==
    IF s.pc = "idle" THEN 0
    ELSE IF s.pc = "walk" THEN 1 + s.depth
    ELSE IF s.pc = "pdfLoop" THEN 1 + s.s
    ELSE IF s.pc = "fLoop" THEN 1 + s.s * (config.maxDepth + 2)
    ELSE IF s.pc = "fWalk" THEN 2 + s.s * (config.maxDepth + 2) + s.depth
    ELSE C14_RankEnded

\* a step of a call brings it nearer to its end
C14_Advances ==
    \A c \in DOMAIN call : call'[c] # call[c] => C14_Rank(call'[c]) > C14_Rank(call[c])

\* C14: under every sequence of draws a call of f begins at most nSamples * maxDepth
\* walk iterations, a call of Sample_f at most maxDepth and a call of PDF at most
\* nSamples; every step of a call, a `continue` included, advances it in its loops,
\* whose counters stay within maxDepth and nSamples, so every call ends
C14_Terminates ==
    /\ [](\A c \in DOMAIN call :
            /\ C14_Iterations(call[c]) <= C14_Bound(call[c])
            /\ call[c].depth <= config.maxDepth /\ call[c].s <= config.nSamples
            /\ C14_Rank(call[c]) <= C14_RankEnded
            /\ Ended(call[c]) <=> C14_Rank(call[c]) = C14_RankEnded)
    /\ [][C14_Advances]_vars

\* a call of f has ended after every one of its walks ran maxDepth iterations
C14_Witness ==
    /\ Ended(call[1]) /\ call[1].op = "f" /\ config.maxDepth > 0
    /\ call[1].steps = config.nSamples * config.maxDepth
    /\ call[1].ev = "return"

-----------------------------------------------------------------------------
(* C15 *)

\* C15: no call of Sample_f, PDF or Flags, whatever lobes are requested and whatever the
\* two interfaces are, ends by aborting: a failure is an absent or a zero result
C15_NeverAborts ==
    \A c \in DOMAIN call : call[c].pc # "aborted"

-----------------------------------------------------------------------------
(* C16 *)

\* the interfaces a selector points to
C16_Set(sel) == {p \in {sel.top, sel.bottom} : p # Null}

\* the last call returned what the interface i returns for its arguments
C16_Forwarded(s, i) ==
    /\ s.op \in {"none", "f", "Sample_f", "PDF", "Flags"} => s.how = Sound
    /\ s.op = "f" => s.val = BxDFHandle_f(i, s.wo, s.wi, s.mode)
    /\ s.op = "Sample_f" =>
           s.res = BxDFHandle_Sample_f(i, s.wo, s.uc, s.u, s.mode, s.sampleFlags)
    /\ s.op = "PDF" => s.pdf = BxDFHandle_PDF(i, s.wo, s.wi, s.mode, s.sampleFlags)
    /\ s.op = "Flags" => s.flags = BxDFHandle_Flags(i)

\* C16 as stated: after construction and any sequence of assignments, the empty one
\* included, exactly one of top and bottom is set and every call returns what that
\* interface returns
C16_ExactlyOne ==
    /\ Cardinality(C16_Set(bx.sel)) = 1
    /\ \A i \in C16_Set(bx.sel) : C16_Forwarded(bx, i)

\* C16 amended: once a top or a bottom reference has been assigned, exactly one of top
\* and bottom is set, the one assigned last, and f, Sample_f, PDF and Flags return
\* what that interface returns for the same arguments; before the first assignment
\* neither is set
C16_ExactlyOneOnceAssigned ==
    /\ bx.assigned =>
         /\ Cardinality(C16_Set(bx.sel)) = 1
         /\ \A i \in C16_Set(bx.sel) : C16_Forwarded(bx, i)
    /\ ~bx.assigned => C16_Set(bx.sel) = {}

\* a selector assigned a top and then a bottom interface has forwarded a Sample_f call
\* to the bottom one, which returned a sample
C16_Witness ==
    /\ bx.assigned /\ bx.sel.top = Null /\ bx.sel.bottom \in SelBottoms
    /\ bx.op = "Sample_f" /\ bx.res.present

-----------------------------------------------------------------------------
(* C17 *)

\* a call of f or Sample_f that has chosen its entrance interface
C17_Entered(s) == s.op \in {"f", "Sample_f"} /\ s.pc \notin {"idle", "aborted"}

\* wo after the two-sided flip
C17_Wo(s) == IF config.twoSided /\ RSign(s.wo) < 0 THEN RNeg(s.wo) ELSE s.wo

\* a walk that stands at its start: Sample_f has entered, f has drawn its head samples
C17_AtStart(s) ==
    \/ s.op = "Sample_f" /\ s.pc = "walk" /\ s.ev = "entered"
    \/ s.op = "f" /\ s.pc = "fWalk" /\ s.ev = "walk"

\* the lobe kinds of the interface an entrance sample came from
C17_Kinds(fl) == fl \ ReflTransAll

\* C17 as stated, its last clause: with twoSided set every call enters through the top
C17_TopWhenTwoSided ==
    \A c \in DOMAIN call :
        (C17_Entered(call[c]) /\ config.twoSided) => call[c].enteredTop

\* C17 amended: after the flip the entrance is the top when wo.z > 0 and the bottom
\* when wo.z < 0 or wo.z = 0; Sample_f samples that interface; a walk starts at
\* z = thickness for the top and z = 0 for the bottom; with twoSided set the
\* entrance is the top for every wo off the horizon
C17_EntranceBySign ==
    \A c \in DOMAIN call :
        LET s == call[c] IN
        C17_Entered(s) =>
            /\ RSign(C17_Wo(s)) > 0 => s.enteredTop
            /\ RSign(C17_Wo(s)) <= 0 => ~s.enteredTop
            /\ (config.twoSided /\ s.wo # Zero) => s.enteredTop
            /\ (s.op = "Sample_f" /\ s.bs.present
                  /\ s.ev \in {"entered", "entryReflection", "entryBad"}) =>
                   C17_Kinds(s.bs.flags) = C17_Kinds(IF s.enteredTop THEN top ELSE bottom)
            /\ C17_AtStart(s) => s.z = (IF s.enteredTop THEN thickness ELSE Zero)

\* walks stand at their start at the top after a flip, and at the bottom of an
\* instance that is not two-sided
C17_Witness ==
    /\ C17_AtStart(call[1])
    /\ \/ config.twoSided /\ RSign(call[1].wo) < 0 /\ call[1].z = thickness
       \/ ~config.twoSided /\ RSign(call[1].wo) < 0 /\ call[1].z = Zero
    /\ call[1].op = "f"

-----------------------------------------------------------------------------
(* C18 *)

\* a call of f that has returned
C18_Done(s) == s.op = "f" /\ s.pc = "done"

\* what the entrance interface returns for the call's directions: enterInterface.f on
\* the flipped wo and wi when they are on one side, else 0
C18_EnterF(s) ==
    LET wo == IF s.flipWi THEN RNeg(s.wo) ELSE s.wo
        wi == IF s.flipWi THEN RNeg(s.wi) ELSE s.wi
    IN  IF SameHemisphereZ(wo, wi)
        THEN HashedF(IF s.enteredTop THEN top ELSE bottom, wo, wi, s.mode)
        ELSE Spectrum(Zero)

\* the entrance reflection once, plus the sum of the walks' contributions over nSamples
C18_Expected(s) ==
    SAdd(C18_EnterF(s), SDiv(s.walkSum, Rat(config.nSamples, 1)))

\* equal Floats, component by component
C18_Same(a, b) == \A i \in Comp : REq(a[i], b[i])

\* C18 as stated: for every nSamples the value f returns is the entrance reflection
\* plus the average of the walks
C18_ForEveryNSamples ==
    \A c \in DOMAIN call :
        C18_Done(call[c]) => C18_Same(call[c].val, C18_Expected(call[c]))

\* C18 amended: for every nSamples >= 1 the value f returns is the entrance reflection,
\* counted once and only for wo and wi on one side, plus the sum of the walks'
\* contributions over nSamples, also when no walk contributes; with nSamples = 0 the
\* value is 0 / 0
C18_EntrancePlusAverage ==
    \A c \in DOMAIN call :
        C18_Done(call[c]) =>
            IF config.nSamples >= 1
            THEN C18_Same(call[c].val, C18_Expected(call[c]))
            ELSE call[c].val = Spectrum(NaN)

\* f has returned the entrance reflection plus the average of walks that contributed
C18_Witness ==
    /\ C18_Done(call[1]) /\ config.nSamples = MaxNSamples
    /\ SNonZero(C18_EnterF(call[1])) /\ SNonZero(call[1].walkSum)

-----------------------------------------------------------------------------
(* C19 *)

\* a walk of f was skipped because the exit sample for wi was absent or unusable
C19_SkippedForWis(s) == s.op = "f" /\ s.ev = "wisBad"

\* C19 as stated: with zero albedo no exit sample for wi is taken and no walk is
\* skipped for want of it
C19_OnlyWithAlbedo ==
    \A c \in DOMAIN call :
        ~SNonZero(albedo) =>
            /\ ~C19_SkippedForWis(call[c])
            /\ (call[c].op = "f" /\ call[c].pc = "fWalk") => ~call[c].wis.present

\* C19 amended: in each walk of f, after a usable transmissive entry sample, the
\* transmissive exit sample for wi is drawn whether or not the albedo is zero; a walk
\* runs only with a usable exit sample and is skipped when it is absent or unusable
C19_AlwaysPreSampled ==
    \A c \in DOMAIN call :
        LET s == call[c] IN
        s.op = "f" =>
            /\ s.pc = "fWalk" => (s.wis.present /\ ~BadSample(s.wis))
            /\ C19_SkippedForWis(s) => (s.pc = "fLoop" /\ s.s >= 1)

\* with zero albedo the last walk of a call of f was skipped for want of the exit
\* sample
C19_Witness ==
    /\ ~SNonZero(albedo)
    /\ C19_SkippedForWis(call[1])
    /\ call[1].s = MaxNSamples

-----------------------------------------------------------------------------
(* C20: the Russian roulette of the walks of f and Sample_f *)

\* the events an iteration of a walk ends with
C20_Events ==
    {"roulette", "wz0", "noFlight", "phaseBad", "scattered", "reflected", "exit",
     "ifaceBad", "exitBad", "exitReflected", "nonExitBad"}

\* call s has just run an iteration of a walk of f or Sample_f
C20_Iterated(s) == s.op \in {"f", "Sample_f"} /\ s.ev \in C20_Events

\* 1 - q of the roulette r
C20_Survival(r) == RSub(One, r.q)

\* the roulette of the last iteration is played with q = max(0, 1 - throughput), ends
\* the walk exactly when the draw is below q, and otherwise rescales by 1 - q > 0
C20_Played(s) ==
    LET r == s.roulette IN
    /\ (s.ev = "roulette") <=> (r.played /\ RLt(r.u, r.q))
    /\ r.played =>
         /\ r.q = RMax(Zero, RSub(One, r.x))
         /\ s.op = "f" => r.x = MaxComponentValue(r.from)
         /\ s.ev # "roulette" =>
              /\ RLt(Zero, C20_Survival(r))
              /\ s.op = "f" => r.to = SDiv(r.from, C20_Survival(r))
              /\ s.op = "Sample_f" => r.to = RMul(r.from, C20_Survival(r))

\* C20 as stated: in the walks of f and Sample_f Russian roulette is played at a step
\* only when depth > 3 and the throughput is below a quarter of the value the walk
\* started with, never at depth <= 3; it ends the walk with q = max(0, 1 - throughput)
\* and a survivor is rescaled by 1 / (1 - q), with 1 - q > 0
C20_BelowQuarterOfStart ==
    \A c \in DOMAIN call :
        C20_Iterated(call[c]) =>
            /\ call[c].roulette.played =>
                 /\ call[c].roulette.depth > 3
                 /\ RLt(call[c].roulette.x, RMul(Quarter, call[c].roulette.start))
            /\ C20_Played(call[c])

\* C20, amended: in the walks of f and Sample_f Russian roulette is played at a step
\* exactly when depth > 3 and the throughput is below the constant 0.25, whatever the
\* walk started with, never at depth <= 3; it ends the walk when the draw is below
\* q = max(0, 1 - throughput), and a survivor is rescaled by 1 / (1 - q) (f divides
\* beta by 1 - q, Sample_f multiplies pdf by 1 - q), with 1 - q > 0
C20_BelowQuarter ==
    \A c \in DOMAIN call :
        C20_Iterated(call[c]) =>
            /\ call[c].roulette.played <=>
                 (call[c].roulette.depth > 3 /\ RLt(call[c].roulette.x, Quarter))
            /\ C20_Played(call[c])

\* a walk of f met a roulette at depth > 3, survived it and went on, rescaled
C20_Witness ==
    \E c \in DOMAIN call :
        /\ call[c].op = "f" /\ C20_Iterated(call[c])
        /\ call[c].roulette.played /\ call[c].ev # "roulette"
        /\ call[c].roulette.depth > 3
        /\ call[c].roulette.to # call[c].roulette.from

-----------------------------------------------------------------------------
(* C21: an absent or degenerate sample inside a walk of f *)

\* the events of f at which a sample was absent or degenerate: the entry sample, the
\* exit pre-sample, the phase sample, the reflective sample at either interface
C21_Degenerate == {"wosBad", "wisBad", "phaseBad", "exitBad", "nonExitBad"}

\* a walk that met an absent or degenerate sample is still running
C21_StillWalking(s) == s.op = "f" /\ s.pc = "fWalk" /\ s.ev \in C21_Degenerate

\* C21: in LayeredBxDF::f a walk that has met an absent or degenerate sample (entry,
\* exit pre-sample, phase sample, reflective sample at either interface) is over, and
\* no later step of that walk adds to f
C21_DegenerateEndsWalk ==
    /\ [](\A c \in DOMAIN call : ~C21_StillWalking(call[c]))
    /\ [][\A c \in DOMAIN call :
              C21_StillWalking(call[c]) => call'[c].f = call[c].f]_vars

-----------------------------------------------------------------------------
(* C22: the exit interface of f and the interface events of its walk *)

\* the exit interface is the top one: it is the entrance interface exactly when wo and
\* wi are on the same hemisphere
C22_ExitIsTop(s) == s.enteredTop <=> SameHemisphereZ(s.wo, s.wi)

\* the height of the top or of the bottom interface, and its lobes
C22_Height(isTop) == IF isTop THEN thickness ELSE Zero

C22_Interface(isTop) == IF isTop THEN top ELSE bottom

\* bs, if present, is a reflection-only sample of the interface
C22_ReflectedBy(bs, isTop) ==
    bs.present => bs.flags = (C22_Interface(isTop) \ ReflTransAll) \cup {"Reflection"}

\* at height z direction w points into the slab
C22_Inward(z, w) ==
    /\ z = thickness => RSign(w) < 0
    /\ z = Zero => RSign(w) > 0

\* the interface events of a walk of f, at the exit and at the non-exit interface
C22_Events(s) ==
    /\ s.ev \in {"exitReflected", "exitBad"} => C22_ReflectedBy(s.bs, C22_ExitIsTop(s))
    /\ s.ev \in {"reflected", "nonExitBad"} => C22_ReflectedBy(s.bs, ~C22_ExitIsTop(s))
    /\ s.ev = "exitReflected" =>
         /\ s.z = C22_Height(C22_ExitIsTop(s))
         /\ s.bs.present /\ C22_Inward(s.z, s.w)
    /\ s.ev = "reflected" =>
         /\ s.z = C22_Height(~C22_ExitIsTop(s))
         /\ s.bs.present /\ C22_Inward(s.z, s.w)

\* C22: in LayeredBxDF::f the exit interface is the entrance interface exactly when wo
\* and wi are on the same hemisphere, exitZ is its height, every interface event is a
\* reflection-only sample of the exit interface when z = exitZ and of the non-exit
\* interface otherwise, and the walk stays in the slab
C22_ExitInterface ==
    \A c \in DOMAIN call :
        call[c].op = "f" /\ call[c].pc \in {"fWalk", "fLoop"} =>
            /\ C22_Events(call[c])
            /\ RLe(Zero, call[c].z) /\ RLe(call[c].z, thickness)

\* a walk that entered at the bottom, with wo and wi on opposite sides and the two
\* interfaces distinguishable by their lobes, was reflected at its exit interface
C22_Witness ==
    \E c \in DOMAIN call :
        /\ call[c].op = "f" /\ call[c].ev = "exitReflected"
        /\ ~call[c].enteredTop /\ call[c].wo # Zero
        /\ ~SameHemisphereZ(call[c].wo, call[c].wi)
        /\ top \ ReflTransAll # bottom \ ReflTransAll

-----------------------------------------------------------------------------
(* C23: the position of a layered walk *)

\* call s is inside a walk of f or of Sample_f
C23_Walking(s) ==
    \/ s.op = "f" /\ s.pc = "fWalk"
    \/ s.op = "Sample_f" /\ s.pc = "walk"

C23_AtBoundary(z) == z \in {Zero, thickness}

\* the position of the walk of s: in the slab, at a boundary after an interface event
\* and whenever the albedo is zero, strictly inside after a medium scattering event
C23_Position(s) ==
    /\ RLe(Zero, s.z) /\ RLe(s.z, thickness)
    /\ s.ev \in {"reflected", "exitReflected"} => C23_AtBoundary(s.z)
    /\ s.ev = "scattered" => RLt(Zero, s.z) /\ RLt(s.z, thickness)
    /\ ~SNonZero(albedo) => C23_AtBoundary(s.z)

\* with zero albedo an iteration that goes on moves the walk to the other boundary
C23_Alternates ==
    \A c \in DOMAIN call :
        (/\ ~SNonZero(albedo)
         /\ C23_Walking(call[c]) /\ C23_Walking(call'[c])
         /\ call'[c].depth = call[c].depth + 1)
        => call'[c].z = (IF call[c].z = thickness THEN Zero ELSE thickness)

\* C23: in every state of a layered walk of f and Sample_f 0 <= z <= thickness; an
\* interface event leaves z at 0 or at thickness, a medium scattering event strictly
\* between them; with zero albedo z alternates between 0 and thickness at every step;
\* and no DCHECK of Sample_f fails when a flight reaches a boundary
C23_WalkPosition ==
    /\ [](\A c \in DOMAIN call :
            /\ C23_Walking(call[c]) => C23_Position(call[c])
            /\ call[c].ev # "DCHECK")
    /\ [][C23_Alternates]_vars

\* a flight of Sample_f through a scattering medium has reached a boundary, passed
\* the DCHECK and was reflected back into the slab
C23_Witness ==
    \E c \in DOMAIN call :
        /\ call[c].op = "Sample_f" /\ call[c].pc = "walk" /\ call[c].ev = "reflected"
        /\ SNonZero(albedo) /\ call[c].depth > 1

-----------------------------------------------------------------------------
(* C24: zero-density, zero-valued and absent samples in LayeredBxDF::PDF *)

\* call s has just run an iteration of the loop of PDF, in the TT or in the TRT branch
C24_TT(s) == s.op = "PDF" /\ s.pc = "pdfLoop" /\ s.ev \in {"ttSkipWos", "ttSkipWis", "tt"}

C24_TRT(s) == s.op = "PDF" /\ s.pc = "pdfLoop" /\ s.ev \in {"trtSkip", "trtBadRs", "trt"}

\* one of the samples wos, wis drawn in the iteration is of a kind in kinds
C24_Drew(s, kinds) == s.drawn[1] \in kinds \/ s.drawn[2] \in kinds

\* C24: an iteration of LayeredBxDF::PDF whose sample wos or wis is absent, or present
\* with a zero density or a zero value (in the TT branch also: with a direction of
\* z = 0), adds nothing to pdfSum
C24_DegenerateAddsNothing ==
    [][\A c \in DOMAIN call :
         (\/ C24_TT(call'[c]) /\ C24_Drew(call'[c], {"absent", "zero", "grazing"})
          \/ C24_TRT(call'[c]) /\ C24_Drew(call'[c], {"absent", "zero"}))
         => call'[c].pdfSum = call[c].pdfSum]_vars

-----------------------------------------------------------------------------
(* C25: the lobes of a returned sample and the lobes Flags() reports *)

\* the sample a finished call of LayeredBxDF::Sample_f returned carries only lobes
\* that LayeredBxDF::Flags() reports for the instance
C25_Layered(s) ==
    (s.op = "Sample_f" /\ s.pc = "done" /\ s.res.present)
        => s.res.flags \subseteq LayeredBxDF_Flags(top, bottom)

\* the same for a variant evaluated through the BxDF handle
C25_Variant ==
    (bx # NoBx /\ bx.op = "Sample_f" /\ bx.res.present) => bx.res.flags \subseteq bx.flags

\* C25: for every variant the lobe flags of every present sample returned by Sample_f
\* are contained in the lobes the variant reports through Flags()
C25_SampledLobesReported ==
    /\ \A c \in DOMAIN call : C25_Layered(call[c])
    /\ C25_Variant

-----------------------------------------------------------------------------
(* C26: the pointers the operations of TopOrBottomBxDF go through *)

\* C26: in every state reached by assigning a top or a bottom reference, no operation
\* of TopOrBottomBxDF (f, Sample_f, PDF, Flags, IsNonSpecular, getDiffuseReflectance)
\* goes through the pointer that is not set
C26_OnlySetDereferenced ==
    (bx.variant = "TopOrBottomBxDF" /\ bx.assigned) => bx.how = Sound

-----------------------------------------------------------------------------
(* C27: the two sides of a two-sided instance *)

\* both calls have ended: the second was made with the first one's directions negated
C27_Pair ==
    /\ Ended(call[1]) /\ Ended(call[2])
    /\ call[1].op = call[2].op
    /\ Arguments(call[2]) = Negated(Arguments(call[1]))
    /\ call[1].wo # Zero

\* a returned sample with its direction negated
C27_Reversed(bs) == IF bs.present THEN [bs EXCEPT !.wi = RNeg(bs.wi)] ELSE bs

\* C27: with twoSided set, for every wo with wo.z # 0 and every wi, f(wo, wi) =
\* f(-wo, -wi) and PDF(wo, wi) = PDF(-wo, -wi), and Sample_f(-wo, uc, u) returns the
\* presence, value, pdf and flags of Sample_f(wo, uc, u) with the direction negated
C27_TwoSidedSymmetry ==
    (config.twoSided /\ C27_Pair) =>
        /\ call[2].pc = call[1].pc
        /\ call[2].val = call[1].val
        /\ call[2].res = C27_Reversed(call[1].res)

\* the two calls of a pair returned samples that left the layers after a walk, or
\* values of f that a walk added to
C27_Witness ==
    /\ C27_Pair /\ config.twoSided /\ config.maxDepth > 0
    /\ \/ /\ call[1].op = "Sample_f" /\ call[1].res.present /\ call[2].res.present
          /\ call[1].ev = "exit" /\ call[1].res.wi # call[2].res.wi
       \/ /\ call[1].op = "f" /\ SNonZero(call[1].val) /\ RSign(call[1].wi) # 0

-----------------------------------------------------------------------------
(* C28: the samples of the non-specular variants against f and PDF *)

\* a finished Sample_f call of IdealDiffuseBxDF, DiffuseBxDF, a rough ConductorBxDF
\* or NormalizedFresnelBxDF that returned a sample
C28_Sampled ==
    /\ BxDone("Sample_f") /\ bx.res.present
    /\ \/ bx.variant \in {"IdealDiffuseBxDF", "DiffuseBxDF", "NormalizedFresnelBxDF"}
       \/ bx.variant = "ConductorBxDF" /\ ~EffectivelySmooth(bx.p.alpha)

\* C28: every present sample s = Sample_f(wo, uc, u, mode, flags) of these variants
\* has s.pdf = PDF(wo, s.wi, mode, flags) and s.f = f(wo, s.wi, mode), for every wo,
\* wo.z = 0 included, with a reflection-flagged direction on wo's hemisphere and a
\* transmission-flagged one on the opposite hemisphere
C28_SampleMatchesPDFAndF ==
    C28_Sampled =>
        /\ bx.res.pdf = BxDFHandle_PDF(BxInst, bx.wo, bx.res.wi, bx.mode, bx.sampleFlags)
        /\ bx.res.f = BxDFHandle_f(BxInst, bx.wo, bx.res.wi, bx.mode)
        /\ IsReflective(bx.res.flags) => SameHemisphere(bx.wo, bx.res.wi)
        /\ IsTransmissive(bx.res.flags) => RLt(RMul(bx.wo[3], bx.res.wi[3]), Zero)

====
